---- MODULE Spec2Model ----
(***************************************************************************)
(* A model of go-mongoutils' Collection (mongo/collection.go), its data    *)
(* utilities (mongo/datautils.go) and the part of the MongoDB driver the   *)
(* collection operations call.  One action per exported operation; every   *)
(* action is the whole handler.  The driver is the environment: it holds   *)
(* the stored documents, and any of its calls may fail (unreachable        *)
(* server, expired per-call timeout).                                      *)
(***************************************************************************)
EXTENDS Integers, Sequences, FiniteSets, TLC

(***************************************************************************)
(* Bounds of the model.                                                    *)
(***************************************************************************)
\* The largest number of documents the modelled collection stores.
MaxDocs == 2
\* The longest slice handed to InsertMany.
MaxBatch == 2
MaxIndexConfigs == 2

(***************************************************************************)
(* Go types as reflect sees them.  A type is a base type behind `ptr`      *)
(* pointer levels.  "item" is the schema struct of the tests; "item2" is   *)
(* another struct type that is also called item, declared in another       *)
(* package whose name is mongo as well; "other" is the tests' mismatching  *)
(* struct.                                                                 *)
(***************************************************************************)
BaseTypes == {"item", "item2", "other", "map", "slice", "array", "string"}

T(b, p) == [base |-> b, ptr |-> p]

\* reflect.Kind of a base type.
BaseKind(b) ==
    CASE b \in {"item", "item2", "other"} -> "struct"
      [] b = "map"    -> "map"
      [] b = "slice"  -> "slice"
      [] b = "array"  -> "array"
      [] b = "string" -> "string"

\* reflect.Type.String() of a base type: the package's name, not its path,
\* qualifies the type's name.
BaseString(b) ==
    CASE b \in {"item", "item2"} -> "mongo.item"
      [] b = "other"  -> "struct { Mismatch string }"
      [] b = "map"    -> "map[string]interface {}"
      [] b = "slice"  -> "[]interface {}"
      [] b = "array"  -> "[4]int"
      [] b = "string" -> "string"

\* reflect.Type.Kind()
Kind(t) == IF t.ptr > 0 THEN "ptr" ELSE BaseKind(t.base)

\* reflect.Type.Elem() of a pointer type
Elem(t) == [t EXCEPT !.ptr = @ - 1]

\* reflect.Type.String(), as the sequence of its tokens: one "*" per pointer
\* level, then the base type's name.
RECURSIVE TypeString(_)
TypeString(t) ==
    IF t.ptr > 0 THEN <<"*">> \o TypeString(Elem(t)) ELSE <<BaseString(t.base)>>

\* strings.HasPrefix(s, "*")
HasPrefixStar(s) == Len(s) > 0 /\ Head(s) = "*"

(***************************************************************************)
(* Go values (interface{} arguments): a dynamic type and a payload.  A     *)
(* pointer's payload is that of the value it points to.  GoNil is the nil  *)
(* interface, which has no dynamic type: reflect.TypeOf(nil) is nil.       *)
(***************************************************************************)
GoNil == [type |-> T("nil", 0), val |-> <<>>]

V(t, v) == [type |-> t, val |-> v]

IsNil(x) == x.type.base = "nil"

\* (*T)(nil) as an interface{}: a value that has the pointer type t and
\* points to nothing
NilPointer(t) == [type |-> t, val |-> <<>>, nilptr |-> TRUE]

\* reflect.ValueOf(x).IsNil() for a pointer x
IsNilPointer(x) == "nilptr" \in DOMAIN x

(***************************************************************************)
(* BSON values and documents.  A document is a function from keys to       *)
(* values.  OID(0) is the zero ObjectID.                                   *)
(***************************************************************************)
VStr(s) == [str |-> s]
VInt(n) == [int |-> n]
VOID(n) == [oid |-> n]
VSub(d) == [doc |-> d]

IsStr(x) == DOMAIN x = {"str"}
IsInt(x) == DOMAIN x = {"int"}
IsOID(x) == DOMAIN x = {"oid"}
IsSub(x) == DOMAIN x = {"doc"}

EmptyDoc == [k \in {} |-> VStr("")]

\* bson.Document.Delete(key)
DocDelete(d, key) == [k \in DOMAIN d \ {key} |-> d[k]]

\* objectid.ObjectID.String(): ObjectID("<24 hex digits>")
ObjectIDString(id) == <<"ObjectID", id>>
zeroObjectID == ObjectIDString(0)

(***************************************************************************)
(* The struct types' fields: Go name, bson key (the tag's name), kind of   *)
(* the value and whether the tag says omitempty.  item is the tests'       *)
(* schema type; its ID is an ObjectID, a 12-byte array, which the encoder  *)
(* never takes for empty.                                                  *)
(***************************************************************************)
Field(n, k, kd, o) == [name |-> n, key |-> k, kind |-> kd, omitempty |-> o]

ItemFields ==
    { Field("ID", "_id", "oid", TRUE),
      Field("Word", "word", "str", FALSE),
      Field("Definition", "definition", "str", TRUE),
      Field("Hits", "hits", "int", TRUE) }

Fields(b) ==
    IF b \in {"item", "item2"} THEN ItemFields
    ELSE IF b = "other" THEN { Field("Mismatch", "mismatch", "str", FALSE) }
    ELSE {}

FieldOfKey(b, k) == CHOOSE f \in Fields(b) : f.key = k

Wrap(kind, raw) ==
    CASE kind = "oid" -> VOID(raw)
      [] kind = "str" -> VStr(raw)
      [] kind = "int" -> VInt(raw)

Unwrap(x) ==
    CASE IsOID(x) -> x.oid
      [] IsStr(x) -> x.str
      [] IsInt(x) -> x.int

KindOfValue(x) ==
    CASE IsOID(x) -> "oid"
      [] IsStr(x) -> "str"
      [] IsInt(x) -> "int"
      [] OTHER    -> "doc"

ZeroRaw(kind) ==
    CASE kind = "oid" -> 0
      [] kind = "str" -> ""
      [] kind = "int" -> 0

\* The encoder's test for an empty value under omitempty: an empty string,
\* a zero number; an array (an ObjectID) only if its length is 0.
IsEmptyValue(kind, raw) == kind # "oid" /\ raw = ZeroRaw(kind)

\* The zero value of a struct type
ZeroStruct(b) == [n \in {f.name : f \in Fields(b)} |->
                    ZeroRaw((CHOOSE f \in Fields(b) : f.name = n).kind)]

\* bson.NewDocumentEncoder().EncodeDocument(data): [ok, doc].  A struct or a
\* map, or a pointer to one, is encoded; anything else is an error.
EncodeDocument(data) ==
    LET t == data.type
        b == t.base
    IN  IF IsNil(data) \/ t.ptr > 1 \/ BaseKind(b) \notin {"struct", "map"}
        THEN [ok |-> FALSE, doc |-> EmptyDoc]
        ELSE IF BaseKind(b) = "map"
        THEN [ok |-> TRUE, doc |-> data.val]
        ELSE LET keep == { f \in Fields(b) :
                            ~(f.omitempty /\ IsEmptyValue(f.kind, data.val[f.name])) }
             IN  [ok |-> TRUE,
                  doc |-> [k \in {f.key : f \in keep} |->
                             LET f == FieldOfKey(b, k)
                             IN  Wrap(f.kind, data.val[f.name])]]

\* A faulty toBSON that leaves the zero _id in the document
toBSON_KeepsZeroID(data) ==
    LET enc == EncodeDocument(data)
    IN  IF ~enc.ok THEN [st |-> "err", doc |-> EmptyDoc]
        ELSE IF "_id" \in DOMAIN enc.doc /\ ~IsOID(enc.doc["_id"])
        THEN [st |-> "panic", doc |-> EmptyDoc]
        ELSE [st |-> "ok", doc |-> enc.doc]

\* toBSON: [st, doc] with st "ok", "err" (the encoder's error) or "panic"
\* (ObjectID() of an _id element that holds no ObjectID).
toBSON(data) ==
    LET enc == EncodeDocument(data)
        doc == enc.doc
    IN  IF ~enc.ok THEN [st |-> "err", doc |-> EmptyDoc]
        ELSE IF "_id" \in DOMAIN doc
        THEN IF ~IsOID(doc["_id"]) THEN [st |-> "panic", doc |-> EmptyDoc]
             ELSE IF ObjectIDString(doc["_id"].oid) = zeroObjectID
                  THEN [st |-> "ok", doc |-> DocDelete(doc, "_id")]
                  ELSE [st |-> "ok", doc |-> doc]
        ELSE [st |-> "ok", doc |-> doc]

\* The memory an operation works on is a sequence of values, the value at
\* address a being heap[a]; a pointer is [type, addr].  The value
\* Collection.SchemaStruct points to is at SchemaAddr when the operation
\* starts.
SchemaAddr == 1

Heap(c) == <<c.SchemaStruct.val>>

\* reflect.New(t): a pointer to a new zero value of type t, at an address
\* that was not in use
New(t, heap) ==
    [ptr |-> [type |-> T(t.base, t.ptr + 1), addr |-> Len(heap) + 1],
     heap |-> Append(heap, IF BaseKind(t.base) = "struct" THEN ZeroStruct(t.base)
                           ELSE EmptyDoc)]

\* The pointer ptr as its holder sees it: its type, the value it points to,
\* and its address
Deref(ptr, heap) == [type |-> ptr.type, val |-> heap[ptr.addr], addr |-> ptr.addr]

\* copyInterface: a pointer to a new zero value of intf's type, or of the
\* type intf points to.
copyInterface(intf, heap) ==
    LET intfType == IF Kind(intf.type) = "ptr" THEN Elem(intf.type) ELSE intf.type
    IN  New(intfType, heap)

\* A faulty verifyKind that takes every pointer for valid, whatever it
\* points to
verifyKind_AnyPointer(intf, validKinds) ==
    IF IsNil(intf) THEN "panic"
    ELSE IF Kind(intf.type) = "ptr" THEN "true"
    ELSE IF Kind(intf.type) \in validKinds THEN "true" ELSE "false"

\* A faulty verifyKind that dereferences every pointer level
verifyKind_AllLevels(intf, validKinds) ==
    IF IsNil(intf) THEN "panic"
    ELSE IF BaseKind(intf.type.base) \in validKinds THEN "true" ELSE "false"

\* verifyKind: "true" or "false"; "panic" for the nil interface, whose
\* reflect.TypeOf is nil.
verifyKind(intf, validKinds) ==
    IF IsNil(intf) THEN "panic"
    ELSE LET kind == IF Kind(intf.type) = "ptr" THEN Kind(Elem(intf.type))
                     ELSE Kind(intf.type)
         IN  IF kind \in validKinds THEN "true" ELSE "false"

\* Collection.verifyDataSchema: "ok", "err" (mismatch) or "panic" (nil data).
verifyDataSchema(c, data) ==
    IF IsNil(data) THEN "panic"
    ELSE LET dataType0 == TypeString(data.type)
             dataType == IF ~HasPrefixStar(dataType0) THEN <<"*">> \o dataType0
                         ELSE dataType0
             expectedType == TypeString(c.SchemaStruct.type)
         IN  IF dataType # expectedType THEN "err" ELSE "ok"

(***************************************************************************)
(* Errors.  errors.New(msg) and errors.Wrap(err, msg): an error is the     *)
(* chain of its messages, outermost first; InsertMany's error also names   *)
(* an index.                                                               *)
(***************************************************************************)
NoErr == [nil |-> TRUE, msgs |-> <<>>, index |-> -1]
NewErr(msg) == [nil |-> FALSE, msgs |-> <<msg>>, index |-> -1]
WrapErr(err, msg) == [nil |-> FALSE, msgs |-> <<msg>> \o err.msgs, index |-> -1]
WrapfIndex(err, msg, i) == [nil |-> FALSE, msgs |-> <<msg>> \o err.msgs, index |-> i]

\* What the driver reports when a call fails (no server, timeout expired).
DriverErr == NewErr("driver error")

(***************************************************************************)
(* The driver and the server: the environment.  Stored documents are kept  *)
(* in insertion order, each with a unique _id.                             *)
(***************************************************************************)
Min(a, b) == IF a < b THEN a ELSE b

\* One condition of a query: equality, or an operator document ($gt, $lt)
MatchesKey(doc, k, cond) ==
    /\ k \in DOMAIN doc
    /\ IF IsSub(cond)
       THEN /\ IsInt(doc[k])
            /\ \A o \in DOMAIN cond.doc :
                  CASE o = "$gt" -> doc[k].int > cond.doc[o].int
                    [] o = "$lt" -> doc[k].int < cond.doc[o].int
                    [] OTHER     -> FALSE
       ELSE doc[k] = cond

\* A document matches a query when it satisfies each of its conditions.
Matches(doc, filter) == \A k \in DOMAIN filter : MatchesKey(doc, k, filter[k])

RECURSIVE SelectDocs(_, _, _)
\* The documents that match filter (want = TRUE) or do not (want = FALSE),
\* in their stored order
SelectDocs(ds, filter, want) ==
    IF ds = <<>> THEN <<>>
    ELSE (IF Matches(Head(ds), filter) = want THEN <<Head(ds)>> ELSE <<>>)
         \o SelectDocs(Tail(ds), filter, want)

Matching(docs, filter) == SelectDocs(docs, filter, TRUE)

\* The server's ordering of the values of the sort key: a missing value,
\* then numbers by value, then strings.
SortRank(doc, key) ==
    IF key \notin DOMAIN doc THEN <<0, 0>>
    ELSE IF IsInt(doc[key]) THEN <<1, doc[key].int>>
    ELSE <<2, 0>>

RankLess(r1, r2) == r1[1] < r2[1] \/ (r1[1] = r2[1] /\ r1[2] < r2[2])

\* d1 comes strictly before d2 in direction dir (1 ascending, -1 descending)
Before(d1, d2, key, dir) ==
    IF dir = 1 THEN RankLess(SortRank(d1, key), SortRank(d2, key))
    ELSE RankLess(SortRank(d2, key), SortRank(d1, key))

RECURSIVE InsertSorted(_, _, _, _, _)
\* d inserted into the sorted ds; among equal keys, after them when tie is
\* "stable" and before them otherwise (the server promises no order there).
InsertSorted(d, ds, key, dir, tie) ==
    IF ds = <<>> THEN <<d>>
    ELSE IF Before(d, Head(ds), key, dir)
            \/ (tie # "stable" /\ ~Before(Head(ds), d, key, dir))
         THEN <<d>> \o ds
         ELSE <<Head(ds)>> \o InsertSorted(d, Tail(ds), key, dir, tie)

RECURSIVE SortDocs(_, _, _, _)
SortDocs(ds, key, dir, tie) ==
    IF ds = <<>> THEN <<>>
    ELSE InsertSorted(ds[Len(ds)], SortDocs(SubSeq(ds, 1, Len(ds) - 1), key, dir, tie),
                      key, dir, tie)

\* The key the modelled sort options sort on
SortKey == "hits"

\* findopt: sort is 0 (no sort option), 1 or -1 on SortKey; limit is 0 (no
\* limit option) or the limit.
NoOpts == [sort |-> 0, limit |-> 0]

\* The documents a cursor of collection.Find holds, in the cursor's order
CursorDocs(docs, filter, opts, tie) ==
    LET m == Matching(docs, filter)
        sorted == IF opts.sort = 0 THEN m ELSE SortDocs(m, SortKey, opts.sort, tie)
    IN  IF opts.limit = 0 THEN sorted
        ELSE SubSeq(sorted, 1, Min(opts.limit, Len(sorted)))

DocIDs(docs) == { docs[i]["_id"] : i \in 1..Len(docs) }

\* The _id the driver generates for a document that has none: a non-zero
\* ObjectID no stored document has.
FreshID(docs) ==
    VOID(CHOOSE n \in 1..(Len(docs) + 1) :
            /\ VOID(n) \notin DocIDs(docs)
            /\ \A m \in 1..(n - 1) : VOID(m) \in DocIDs(docs))

DocSet(d, key, val) == [k \in DOMAIN d \cup {key} |-> IF k = key THEN val ELSE d[k]]

\* collection.InsertOne: [ok, id, docs]; a duplicate _id is refused.
DriverInsertOne(docs, doc) ==
    LET id == IF "_id" \in DOMAIN doc THEN doc["_id"] ELSE FreshID(docs)
    IN  IF id \in DocIDs(docs) THEN [ok |-> FALSE, id |-> id, docs |-> docs]
        ELSE [ok |-> TRUE, id |-> id, docs |-> Append(docs, DocSet(doc, "_id", id))]

\* collection.DeleteMany: the documents left and the number removed
DriverDeleteMany(docs, filter) ==
    LET rest == SelectDocs(docs, filter, FALSE)
    IN  [docs |-> rest, DeletedCount |-> Len(docs) - Len(rest)]

\* $set applied to one document
ApplySet(d, set) ==
    [k \in DOMAIN d \cup DOMAIN set |-> IF k \in DOMAIN set THEN set[k] ELSE d[k]]

\* collection.UpdateMany with an update document {$set: ...}, no upsert
DriverUpdateMany(docs, filter, update) ==
    LET set == update["$set"].doc
        new == [i \in 1..Len(docs) |->
                  IF Matches(docs[i], filter) THEN ApplySet(docs[i], set) ELSE docs[i]]
    IN  [docs |-> new,
         MatchedCount  |-> Cardinality({i \in 1..Len(docs) : Matches(docs[i], filter)}),
         ModifiedCount |-> Cardinality({i \in 1..Len(docs) : new[i] # docs[i]})]

\* Decoding a document into the struct target points to: [ok, val].  An
\* element whose kind is not the field's is an error.
Decode(doc, target) ==
    LET b == target.type.base
        fs == Fields(b)
        bad == \E f \in fs : f.key \in DOMAIN doc /\ KindOfValue(doc[f.key]) # f.kind
    IN  IF bad THEN [ok |-> FALSE, val |-> target]
        ELSE [ok |-> TRUE,
              val |-> V(target.type,
                        [n \in {f.name : f \in fs} |->
                           LET f == CHOOSE g \in fs : g.name = n
                           IN  IF f.key \in DOMAIN doc THEN Unwrap(doc[f.key])
                               ELSE target.val[n]])]

\* cur.Decode(item) and SingleResult.Decode(result): the decoded value is
\* written where the pointer points.
DecodeInto(doc, ptr, heap) ==
    LET d == Decode(doc, V(ptr.type, heap[ptr.addr]))
    IN  [ok |-> d.ok,
         heap |-> IF d.ok THEN [heap EXCEPT ![ptr.addr] = d.val.val] ELSE heap]

(***************************************************************************)
(* What an operation did: how it ended (st: "returned" or "panic"), its    *)
(* result (resNil: the result is nil) and error, the driver calls it made, *)
(* the documents it handed to them (sent), its cursor, and the stored      *)
(* documents before (pre) and after (post).                                *)
(***************************************************************************)
NoCur == [opened |-> FALSE, closed |-> FALSE, all |-> <<>>, yielded |-> <<>>]

Ret(op, arg, arg2, resNil, res, err, calls, cur, pre, post) ==
    [op |-> op, arg |-> arg, arg2 |-> arg2, st |-> "returned", resNil |-> resNil,
     res |-> res, err |-> err, calls |-> calls, sent |-> <<>>, cur |-> cur,
     pre |-> pre, post |-> post, wrote |-> {}]

Panicked(op, arg, arg2, calls, cur, pre, post) ==
    [op |-> op, arg |-> arg, arg2 |-> arg2, st |-> "panic", resNil |-> TRUE,
     res |-> <<>>, err |-> NoErr, calls |-> calls, sent |-> <<>>, cur |-> cur,
     pre |-> pre, post |-> post, wrote |-> {}]

\* out, with the documents its driver calls were given
Sent(out, ds) == [out EXCEPT !.sent = ds]

\* out, with what the operation wrote to memory that was there before it:
\* the value at SchemaAddr, when it is no more what c.SchemaStruct pointed to
Wrote(out, c, heap) ==
    [out EXCEPT !.wrote = IF heap[SchemaAddr] # c.SchemaStruct.val
                          THEN {[addr |-> SchemaAddr, val |-> heap[SchemaAddr]]}
                          ELSE {}]

\* A failure before any driver call: (nil, err)
Refused(op, arg, arg2, err, docs) ==
    Ret(op, arg, arg2, TRUE, <<>>, err, <<>>, NoCur, docs, docs)

SchemaMismatch ==
    NewErr("Mismatch between provided data-schema and expected schema.")
EncodeErr == NewErr("encode error")

\* The environment of an operation without a cursor: whether its driver call
\* fails.
Env(fail) == [fail |-> fail]

\* A faulty DeleteMany that hands the driver the encoded filter as it is,
\* zero _id included
DeleteMany_RawFilter(c, docs, filter, env) ==
    LET op == "DeleteMany"
        vs == verifyDataSchema(c, filter)
        enc == EncodeDocument(filter)
        dr == DriverDeleteMany(docs, enc.doc)
    IN  IF vs = "panic" THEN Panicked(op, filter, <<>>, <<>>, NoCur, docs, docs)
        ELSE IF vs = "err"
        THEN Refused(op, filter, <<>>,
                     WrapErr(SchemaMismatch, "DeleteMany - Schema Verification Error"), docs)
        ELSE IF ~enc.ok
        THEN Refused(op, filter, <<>>,
                     WrapErr(EncodeErr, "DeleteMany - BSON Convert Error"), docs)
        ELSE IF env.fail
        THEN Sent(Ret(op, filter, <<>>, TRUE, <<>>, WrapErr(DriverErr, "Deletion Error"),
                      <<"DeleteMany">>, NoCur, docs, docs), <<enc.doc>>)
        ELSE Sent(Ret(op, filter, <<>>, FALSE, [DeletedCount |-> dr.DeletedCount], NoErr,
                      <<"DeleteMany">>, NoCur, docs, dr.docs), <<enc.doc>>)

\* Collection.DeleteMany
DeleteMany(c, docs, filter, env) ==
    LET op == "DeleteMany"
        vs == verifyDataSchema(c, filter)
        bs == toBSON(filter)
        dr == DriverDeleteMany(docs, bs.doc)
    IN  IF vs = "panic" THEN Panicked(op, filter, <<>>, <<>>, NoCur, docs, docs)
        ELSE IF vs = "err"
        THEN Refused(op, filter, <<>>,
                     WrapErr(SchemaMismatch, "DeleteMany - Schema Verification Error"), docs)
        ELSE IF bs.st = "panic" THEN Panicked(op, filter, <<>>, <<>>, NoCur, docs, docs)
        ELSE IF bs.st = "err"
        THEN Refused(op, filter, <<>>,
                     WrapErr(EncodeErr, "DeleteMany - BSON Convert Error"), docs)
        ELSE IF env.fail
        THEN Sent(Ret(op, filter, <<>>, TRUE, <<>>, WrapErr(DriverErr, "Deletion Error"),
                      <<"DeleteMany">>, NoCur, docs, docs), <<bs.doc>>)
        ELSE Sent(Ret(op, filter, <<>>, FALSE, [DeletedCount |-> dr.DeletedCount], NoErr,
                      <<"DeleteMany">>, NoCur, docs, dr.docs), <<bs.doc>>)

\* The one element of a set of one element; { e : x \in {v} } computes v
\* once, whatever the number of times e reads x.
The(S) == CHOOSE x \in S : TRUE

\* A faulty iteration that decodes the document into c.SchemaStruct itself
\* instead of a copy
CursorStep_IntoSchema(c, doc, heap) ==
    LET ptr == [type |-> c.SchemaStruct.type, addr |-> SchemaAddr]
        d == DecodeInto(doc, ptr, heap)
    IN  [ok |-> d.ok, ptr |-> ptr, heap |-> d.heap]

\* item := copyInterface(c.SchemaStruct); err := cur.Decode(item) for the
\* document doc: [ok, ptr, heap], ptr the item
CursorStep(c, doc, heap) ==
    LET item == copyInterface(c.SchemaStruct, heap)
        d == DecodeInto(doc, item.ptr, item.heap)
    IN  [ok |-> d.ok, ptr |-> item.ptr, heap |-> d.heap]

RECURSIVE CursorLoop_Prepends(_, _, _)
\* A faulty cursor loop that puts each decoded item in front of the items
\* decoded before it
CursorLoop_Prepends(c, ds, heap) ==
    IF ds = <<>> THEN [ok |-> TRUE, items |-> <<>>, n |-> 0, heap |-> heap]
    ELSE The(UNION {
             IF ~s.ok THEN {[ok |-> FALSE, items |-> <<>>, n |-> 1, heap |-> s.heap]}
             ELSE {[ok |-> r.ok,
                    items |-> IF r.ok THEN r.items \o <<s.ptr>> ELSE <<>>,
                    n |-> 1 + r.n,
                    heap |-> r.heap] : r \in {CursorLoop_Prepends(c, Tail(ds), s.heap)}}
             : s \in {CursorStep(c, Head(ds), heap)} })

RECURSIVE CursorLoop_IntoSchema(_, _, _)
\* A faulty cursor loop that decodes every document into c.SchemaStruct
\* itself instead of a copy
CursorLoop_IntoSchema(c, ds, heap) ==
    IF ds = <<>> THEN [ok |-> TRUE, items |-> <<>>, n |-> 0, heap |-> heap]
    ELSE The(UNION {
             IF ~s.ok THEN {[ok |-> FALSE, items |-> <<>>, n |-> 1, heap |-> s.heap]}
             ELSE {[ok |-> r.ok,
                    items |-> IF r.ok THEN <<s.ptr>> \o r.items ELSE <<>>,
                    n |-> 1 + r.n,
                    heap |-> r.heap] : r \in {CursorLoop_IntoSchema(c, Tail(ds), s.heap)}}
             : s \in {CursorStep_IntoSchema(c, Head(ds), heap)} })

RECURSIVE CursorLoop(_, _, _)
\* for cur.Next(ctx) { item := copyInterface(c.SchemaStruct); cur.Decode(item);
\* items = append(items, item) } over the documents ds that Next yields, on
\* the memory heap: [ok, items, n, heap], items the pointers appended, n the
\* number of documents Next yielded, heap the memory afterwards; ok is FALSE
\* when a Decode failed.  s is the iteration for the first document, r the
\* rest of the loop on the memory the iteration leaves.
CursorLoop(c, ds, heap) ==
    IF ds = <<>> THEN [ok |-> TRUE, items |-> <<>>, n |-> 0, heap |-> heap]
    ELSE The(UNION {
             IF ~s.ok THEN {[ok |-> FALSE, items |-> <<>>, n |-> 1, heap |-> s.heap]}
             ELSE {[ok |-> r.ok,
                    items |-> IF r.ok THEN <<s.ptr>> \o r.items ELSE <<>>,
                    n |-> 1 + r.n,
                    heap |-> r.heap] : r \in {CursorLoop(c, Tail(ds), s.heap)}}
             : s \in {CursorStep(c, Head(ds), heap)} })

\* The environment of an operation with a cursor: fail, the call that opens
\* the cursor fails; tie, the server's order among equal sort keys; cut, the
\* number of documents after which Next returns false (the cursor's end, or
\* before it when the timeout expires or the connection breaks); closeFail,
\* cur.Close fails.
CurEnv(fail, tie, cut, closeFail) ==
    [fail |-> fail, tie |-> tie, cut |-> cut, closeFail |-> closeFail]

\* The part Find and FindMap share after the driver's Find returned a cursor
\* over the documents all: the loop, then cur.Close.
ReadCursor(c, op, arg, opts, all, env, docs) ==
    The({ LET items == [i \in 1..Len(loop.items) |-> Deref(loop.items[i], loop.heap)]
              cur == [opened |-> TRUE, closed |-> loop.ok, all |-> all,
                      yielded |-> SubSeq(avail, 1, loop.n)]
          IN  Wrote(IF ~loop.ok
                    THEN Ret(op, arg, opts, TRUE, <<>>,
                             WrapErr(NewErr("decode error"), op \o " - Cursor Decode Error"),
                             <<"Find">>, cur, docs, docs)
                    ELSE IF env.closeFail
                    THEN Ret(op, arg, opts, FALSE, items,
                             WrapErr(DriverErr, op \o " - Error Closing Cursor"),
                             <<"Find", "Close">>, cur, docs, docs)
                    ELSE Ret(op, arg, opts, FALSE, items, NoErr,
                             <<"Find", "Close">>, cur, docs, docs),
                    c, loop.heap)
          : loop \in { CursorLoop(c, avail, Heap(c)) :
                          avail \in {SubSeq(all, 1, Min(env.cut, Len(all)))} },
            avail \in {SubSeq(all, 1, Min(env.cut, Len(all)))} })

\* A faulty Find that goes on after the schema check reported a mismatch
Find_Unverified(c, docs, filter, opts, env) ==
    LET op == "Find"
        vs == verifyDataSchema(c, filter)
        bs == toBSON(filter)
    IN  IF vs = "panic" THEN Panicked(op, filter, opts, <<>>, NoCur, docs, docs)
        ELSE IF bs.st = "panic" THEN Panicked(op, filter, opts, <<>>, NoCur, docs, docs)
        ELSE IF bs.st = "err"
        THEN Refused(op, filter, opts,
                     WrapErr(EncodeErr, "Find - BSON Convert Error"), docs)
        ELSE IF env.fail
        THEN Sent(Ret(op, filter, opts, TRUE, <<>>, WrapErr(DriverErr, "Find Error"),
                      <<"Find">>, NoCur, docs, docs), <<bs.doc>>)
        ELSE Sent(ReadCursor(c, op, filter, opts,
                             CursorDocs(docs, bs.doc, opts, env.tie), env, docs),
                  <<bs.doc>>)

\* Collection.Find
Find(c, docs, filter, opts, env) ==
    LET op == "Find"
        vs == verifyDataSchema(c, filter)
        bs == toBSON(filter)
    IN  IF vs = "panic" THEN Panicked(op, filter, opts, <<>>, NoCur, docs, docs)
        ELSE IF vs = "err"
        THEN Refused(op, filter, opts,
                     WrapErr(SchemaMismatch, "Find - Schema Verification Error"), docs)
        ELSE IF bs.st = "panic" THEN Panicked(op, filter, opts, <<>>, NoCur, docs, docs)
        ELSE IF bs.st = "err"
        THEN Refused(op, filter, opts,
                     WrapErr(EncodeErr, "Find - BSON Convert Error"), docs)
        ELSE IF env.fail
        THEN Sent(Ret(op, filter, opts, TRUE, <<>>, WrapErr(DriverErr, "Find Error"),
                      <<"Find">>, NoCur, docs, docs), <<bs.doc>>)
        ELSE Sent(ReadCursor(c, op, filter, opts,
                             CursorDocs(docs, bs.doc, opts, env.tie), env, docs),
                  <<bs.doc>>)

\* A faulty FindOne that returns the empty result without an error when no
\* document matches
FindOne_NoError(c, docs, filter, env) ==
    LET op == "FindOne"
        vs == verifyDataSchema(c, filter)
        bs == toBSON(filter)
        result == copyInterface(c.SchemaStruct, Heap(c))
        m == Matching(docs, bs.doc)
        d == DecodeInto(Head(m), result.ptr, result.heap)
    IN  IF vs = "panic" THEN Panicked(op, filter, <<>>, <<>>, NoCur, docs, docs)
        ELSE IF vs = "err"
        THEN Refused(op, filter, <<>>,
                     WrapErr(SchemaMismatch, "Find - Schema Verification Error"), docs)
        ELSE IF bs.st = "panic" THEN Panicked(op, filter, <<>>, <<>>, NoCur, docs, docs)
        ELSE IF bs.st = "err"
        THEN Refused(op, filter, <<>>,
                     WrapErr(EncodeErr, "Find - BSON Convert Error"), docs)
        ELSE Sent(
             IF env.fail
             THEN Ret(op, filter, <<>>, TRUE, <<>>,
                      WrapErr(DriverErr, "FindOne Decoding Error"),
                      <<"FindOne">>, NoCur, docs, docs)
             ELSE IF m = <<>>
             THEN Ret(op, filter, <<>>, FALSE, Deref(result.ptr, result.heap), NoErr,
                      <<"FindOne">>, NoCur, docs, docs)
             ELSE IF ~d.ok
             THEN Ret(op, filter, <<>>, TRUE, <<>>,
                      WrapErr(NewErr("decode error"), "FindOne Decoding Error"),
                      <<"FindOne">>, NoCur, docs, docs)
             ELSE Wrote(Ret(op, filter, <<>>, FALSE, Deref(result.ptr, d.heap), NoErr,
                            <<"FindOne">>, NoCur, docs, docs), c, d.heap),
             <<bs.doc>>)

\* Collection.FindOne
FindOne(c, docs, filter, env) ==
    LET op == "FindOne"
        vs == verifyDataSchema(c, filter)
        bs == toBSON(filter)
        result == copyInterface(c.SchemaStruct, Heap(c))
        m == Matching(docs, bs.doc)
        d == DecodeInto(Head(m), result.ptr, result.heap)
    IN  IF vs = "panic" THEN Panicked(op, filter, <<>>, <<>>, NoCur, docs, docs)
        ELSE IF vs = "err"
        THEN Refused(op, filter, <<>>,
                     WrapErr(SchemaMismatch, "Find - Schema Verification Error"), docs)
        ELSE IF bs.st = "panic" THEN Panicked(op, filter, <<>>, <<>>, NoCur, docs, docs)
        ELSE IF bs.st = "err"
        THEN Refused(op, filter, <<>>,
                     WrapErr(EncodeErr, "Find - BSON Convert Error"), docs)
        ELSE Sent(
             IF env.fail
             THEN Ret(op, filter, <<>>, TRUE, <<>>,
                      WrapErr(DriverErr, "FindOne Decoding Error"),
                      <<"FindOne">>, NoCur, docs, docs)
             ELSE IF m = <<>>
             THEN Ret(op, filter, <<>>, TRUE, <<>>,
                      WrapErr(NewErr("no documents in result"), "FindOne Decoding Error"),
                      <<"FindOne">>, NoCur, docs, docs)
             ELSE IF ~d.ok
             THEN Ret(op, filter, <<>>, TRUE, <<>>,
                      WrapErr(NewErr("decode error"), "FindOne Decoding Error"),
                      <<"FindOne">>, NoCur, docs, docs)
             ELSE Wrote(Ret(op, filter, <<>>, FALSE, Deref(result.ptr, d.heap), NoErr,
                            <<"FindOne">>, NoCur, docs, docs), c, d.heap),
             <<bs.doc>>)

\* A faulty FindMap without the test for a pointer
FindMap_AcceptsPointer(c, docs, filter, opts, env) ==
    LET op == "FindMap"
        isValidFilter == verifyKind(filter, {"map"})
    IN  IF IsNil(filter) THEN Panicked(op, filter, opts, <<>>, NoCur, docs, docs)
        ELSE IF isValidFilter # "true"
        THEN Refused(op, filter, opts,
                     NewErr("FindMap - Data must be a Map (pointer or non-pointer)"), docs)
        ELSE IF env.fail
        THEN Sent(Ret(op, filter, opts, TRUE, <<>>, WrapErr(DriverErr, "FindMap Error"),
                      <<"Find">>, NoCur, docs, docs), <<filter.val>>)
        ELSE Sent(ReadCursor(c, op, filter, opts,
                             CursorDocs(docs, filter.val, opts, env.tie), env, docs),
                  <<filter.val>>)

\* Collection.FindMap: the filter goes to the driver as it is.
FindMap(c, docs, filter, opts, env) ==
    LET op == "FindMap"
        isValidFilter == verifyKind(filter, {"map"})
    IN  IF IsNil(filter) THEN Panicked(op, filter, opts, <<>>, NoCur, docs, docs)
        ELSE IF Kind(filter.type) = "ptr"
        THEN Refused(op, filter, opts,
                     NewErr("FindMap - Filter must be a non-pointer map"), docs)
        ELSE IF isValidFilter # "true"
        THEN Refused(op, filter, opts,
                     NewErr("FindMap - Data must be a Map (pointer or non-pointer)"), docs)
        ELSE IF env.fail
        THEN Sent(Ret(op, filter, opts, TRUE, <<>>, WrapErr(DriverErr, "FindMap Error"),
                      <<"Find">>, NoCur, docs, docs), <<filter.val>>)
        ELSE Sent(ReadCursor(c, op, filter, opts,
                             CursorDocs(docs, filter.val, opts, env.tie), env, docs),
                  <<filter.val>>)

\* Collection.InsertOne
InsertOne(c, docs, data, env) ==
    LET op == "InsertOne"
        vs == verifyDataSchema(c, data)
        bs == toBSON(data)
        dr == DriverInsertOne(docs, bs.doc)
    IN  IF vs = "panic" THEN Panicked(op, data, <<>>, <<>>, NoCur, docs, docs)
        ELSE IF vs = "err"
        THEN Refused(op, data, <<>>,
                     WrapErr(SchemaMismatch, "InsertOne - Schema Verification Error"), docs)
        ELSE IF bs.st = "panic" THEN Panicked(op, data, <<>>, <<>>, NoCur, docs, docs)
        ELSE IF bs.st = "err"
        THEN Refused(op, data, <<>>,
                     WrapErr(EncodeErr, "InsertOne - BSON Convert Error"), docs)
        ELSE Sent(
             IF env.fail
             THEN Ret(op, data, <<>>, TRUE, <<>>, WrapErr(DriverErr, "InsertOne Error"),
                      <<"InsertOne">>, NoCur, docs, docs)
             ELSE IF ~dr.ok
             THEN Ret(op, data, <<>>, TRUE, <<>>,
                      WrapErr(NewErr("duplicate key"), "InsertOne Error"),
                      <<"InsertOne">>, NoCur, docs, docs)
             ELSE Ret(op, data, <<>>, FALSE, [InsertedID |-> dr.id], NoErr,
                      <<"InsertOne">>, NoCur, docs, dr.docs),
             <<bs.doc>>)

RECURSIVE InsertManyLoop_OneBased(_, _, _, _, _, _, _)
\* A faulty loop whose error names the element's position counted from 1
InsertManyLoop_OneBased(c, pre, docs, data, i, failAt, acc) ==
    LET op == "InsertMany"
        r == InsertOne(c, docs, data[i], Env(i = failAt))
        calls == acc.calls \o r.calls
        sent == acc.sent \o r.sent
    IN  IF i > Len(data)
        THEN acc
        ELSE IF r.st = "panic"
        THEN Sent(Panicked(op, data, <<>>, calls, NoCur, pre, r.post), sent)
        ELSE IF ~r.err.nil
        THEN Sent(Ret(op, data, <<>>, TRUE, <<>>,
                      WrapfIndex(r.err, "InsertMany - Error Inserting Data at Index", i),
                      calls, NoCur, pre, r.post), sent)
        ELSE InsertManyLoop_OneBased(c, pre, r.post, data, i + 1, failAt,
                            Sent(Ret(op, data, <<>>, FALSE, Append(acc.res, r.res), NoErr,
                                     calls, NoCur, pre, r.post), sent))

RECURSIVE InsertManyLoop(_, _, _, _, _, _, _)
\* for i, d := range data { result, err := c.InsertOne(d); ... } from the
\* (1-based) position i on; acc is what the loop did so far (its res the
\* insertResults).  failAt is the position whose driver call fails (0: none).
InsertManyLoop(c, pre, docs, data, i, failAt, acc) ==
    LET op == "InsertMany"
        r == InsertOne(c, docs, data[i], Env(i = failAt))
        calls == acc.calls \o r.calls
        sent == acc.sent \o r.sent
    IN  IF i > Len(data)
        THEN acc
        ELSE IF r.st = "panic"
        THEN Sent(Panicked(op, data, <<>>, calls, NoCur, pre, r.post), sent)
        ELSE IF ~r.err.nil
        THEN Sent(Ret(op, data, <<>>, TRUE, <<>>,
                      WrapfIndex(r.err, "InsertMany - Error Inserting Data at Index", i - 1),
                      calls, NoCur, pre, r.post), sent)
        ELSE InsertManyLoop(c, pre, r.post, data, i + 1, failAt,
                            Sent(Ret(op, data, <<>>, FALSE, Append(acc.res, r.res), NoErr,
                                     calls, NoCur, pre, r.post), sent))

\* Collection.InsertMany.  data is a []interface{}, so verifyKind(data,
\* Array, Slice) holds.
InsertMany(c, docs, data, failAt) ==
    InsertManyLoop(c, docs, docs, data, 1, failAt,
                   Ret("InsertMany", data, <<>>, FALSE, <<>>, NoErr, <<>>, NoCur, docs, docs))

\* A faulty UpdateMany that calls the driver with the upsert option: when no
\* document matches, the server inserts one made of the filter and the update
UpdateMany_Upserts(c, docs, filter, update, env) ==
    LET op == "UpdateMany"
        isValidFilter == verifyKind(filter, {"map", "struct"})
        isValidUpdate == verifyKind(update, {"map"})
        encodedUpdate == V(T("map", 1), [k \in {"$set"} |-> VSub(update.val)])
        us == toBSON(encodedUpdate)
        fs == toBSON(filter)
        dr == DriverUpdateMany(docs, fs.doc, us.doc)
        new == DocSet(update.val, "_id", FreshID(docs))
    IN  IF isValidFilter = "panic" \/ isValidUpdate = "panic"
        THEN Panicked(op, filter, update, <<>>, NoCur, docs, docs)
        ELSE IF isValidFilter = "false" \/ isValidUpdate = "false"
        THEN Refused(op, filter, update,
                     NewErr("UpdateMany - Filter-argument must be a Map or Struct"), docs)
        ELSE IF us.st = "panic" \/ fs.st = "panic"
        THEN Panicked(op, filter, update, <<>>, NoCur, docs, docs)
        ELSE IF us.st = "err" \/ fs.st = "err"
        THEN Refused(op, filter, update,
                     WrapErr(EncodeErr, "UpdateMany - BSON Convert Error"), docs)
        ELSE IF env.fail
        THEN Sent(Ret(op, filter, update, TRUE, <<>>, WrapErr(DriverErr, "UpdateMany Error"),
                      <<"UpdateMany">>, NoCur, docs, docs), <<fs.doc, us.doc>>)
        ELSE Sent(Ret(op, filter, update, FALSE,
                      [MatchedCount |-> dr.MatchedCount, ModifiedCount |-> dr.ModifiedCount,
                       UpsertedID |-> IF dr.MatchedCount = 0 THEN "upserted" ELSE "nil"],
                      NoErr, <<"UpdateMany">>, NoCur, docs,
                      IF dr.MatchedCount = 0 THEN Append(dr.docs, new) ELSE dr.docs),
                  <<fs.doc, us.doc>>)

\* A faulty UpdateMany that verifies its filter against the schema
UpdateMany_SchemaChecked(c, docs, filter, update, env) ==
    LET op == "UpdateMany"
        vs == verifyDataSchema(c, filter)
        isValidUpdate == verifyKind(update, {"map"})
        encodedUpdate == V(T("map", 1), [k \in {"$set"} |-> VSub(update.val)])
        us == toBSON(encodedUpdate)
        fs == toBSON(filter)
        dr == DriverUpdateMany(docs, fs.doc, us.doc)
    IN  IF vs = "panic" \/ isValidUpdate = "panic"
        THEN Panicked(op, filter, update, <<>>, NoCur, docs, docs)
        ELSE IF vs = "err"
        THEN Refused(op, filter, update,
                     WrapErr(SchemaMismatch, "UpdateMany - Schema Verification Error"), docs)
        ELSE IF isValidUpdate = "false"
        THEN Refused(op, filter, update,
                     NewErr("UpdateMany - Update-argument must be a Map"), docs)
        ELSE IF us.st = "panic" \/ fs.st = "panic"
        THEN Panicked(op, filter, update, <<>>, NoCur, docs, docs)
        ELSE IF us.st = "err" \/ fs.st = "err"
        THEN Refused(op, filter, update,
                     WrapErr(EncodeErr, "UpdateMany - BSON Convert Error"), docs)
        ELSE IF env.fail
        THEN Sent(Ret(op, filter, update, TRUE, <<>>, WrapErr(DriverErr, "UpdateMany Error"),
                      <<"UpdateMany">>, NoCur, docs, docs), <<fs.doc, us.doc>>)
        ELSE Sent(Ret(op, filter, update, FALSE,
                      [MatchedCount |-> dr.MatchedCount, ModifiedCount |-> dr.ModifiedCount,
                       UpsertedID |-> "nil"],
                      NoErr, <<"UpdateMany">>, NoCur, docs, dr.docs), <<fs.doc, us.doc>>)

\* Collection.UpdateMany
UpdateMany(c, docs, filter, update, env) ==
    LET op == "UpdateMany"
        isValidFilter == verifyKind(filter, {"map", "struct"})
        isValidUpdate == verifyKind(update, {"map"})
        encodedUpdate == V(T("map", 1), [k \in {"$set"} |-> VSub(update.val)])
        us == toBSON(encodedUpdate)
        fs == toBSON(filter)
        dr == DriverUpdateMany(docs, fs.doc, us.doc)
    IN  IF isValidFilter = "panic"
        THEN Panicked(op, filter, update, <<>>, NoCur, docs, docs)
        ELSE IF isValidFilter = "false"
        THEN Refused(op, filter, update,
                     NewErr("UpdateMany - Filter-argument must be a Map or Struct"), docs)
        ELSE IF isValidUpdate = "panic"
        THEN Panicked(op, filter, update, <<>>, NoCur, docs, docs)
        ELSE IF isValidUpdate = "false"
        THEN Refused(op, filter, update,
                     NewErr("UpdateMany - Update-argument must be a Map"), docs)
        ELSE IF us.st = "panic" THEN Panicked(op, filter, update, <<>>, NoCur, docs, docs)
        ELSE IF us.st = "err"
        THEN Refused(op, filter, update,
                     WrapErr(EncodeErr, "UpdateMany - BSON Convert Error for update-argument"),
                     docs)
        ELSE IF fs.st = "panic" THEN Panicked(op, filter, update, <<>>, NoCur, docs, docs)
        ELSE IF fs.st = "err"
        THEN Refused(op, filter, update,
                     WrapErr(EncodeErr, "UpdateMany - BSON Convert Error for filter-argument"),
                     docs)
        ELSE IF env.fail
        THEN Sent(Ret(op, filter, update, TRUE, <<>>, WrapErr(DriverErr, "UpdateMany Error"),
                      <<"UpdateMany">>, NoCur, docs, docs), <<fs.doc, us.doc>>)
        ELSE Sent(Ret(op, filter, update, FALSE,
                      [MatchedCount |-> dr.MatchedCount, ModifiedCount |-> dr.ModifiedCount,
                       UpsertedID |-> "nil"],
                      NoErr, <<"UpdateMany">>, NoCur, docs, dr.docs), <<fs.doc, us.doc>>)

RECURSIVE RunPipeline(_, _)
\* The documents an aggregation pipeline outputs: each $match stage keeps the
\* documents that match its query.
RunPipeline(ds, pipeline) ==
    IF pipeline = <<>> THEN ds
    ELSE RunPipeline(Matching(ds, Head(pipeline)["$match"].doc), Tail(pipeline))

\* The server knows every stage of the pipeline.
ValidPipeline(pipeline) ==
    \A i \in 1..Len(pipeline) : DOMAIN pipeline[i] = {"$match"}

\* Collection.Aggregate: the pipeline goes to the driver as it is.
Aggregate(c, docs, pipeline, env) ==
    LET op == "Aggregate"
        r == ReadCursor(c, op, pipeline, NoOpts, RunPipeline(docs, pipeline), env, docs)
    IN  IF env.fail \/ ~ValidPipeline(pipeline)
        THEN Sent(Ret(op, pipeline, NoOpts, TRUE, <<>>, WrapErr(DriverErr, "Aggregate Error"),
                      <<"Aggregate">>, NoCur, docs, docs), pipeline)
        ELSE Sent([r EXCEPT !.calls = <<"Aggregate">> \o Tail(@)], pipeline)

(***************************************************************************)
(* EnsureCollection (newcollection.go).  An IndexConfig is a record         *)
(* [ColumnConfig, IsUnique, Name]; a column is [Name, IsDescOrder].  The    *)
(* server keeps, for the collection, its indexes in the order of their      *)
(* creation, each [key, unique, name] (the index on _id, which every        *)
(* collection has, is left out).                                            *)
(***************************************************************************)
\* The bson tag of a struct field, as the pieces of its text: a "," stands
\* for itself.  The field of the tests' other struct has no tag.
FieldTag(b, f) ==
    IF b = "other" THEN <<>>
    ELSE IF f.omitempty THEN <<f.key, ",", "omitempty">>
    ELSE <<f.key>>

RECURSIVE Split(_, _)
\* strings.Split(s, sep): the texts between the separators
Split(s, sep) ==
    IF s = <<>> THEN <<"">>
    ELSE LET rest == Split(Tail(s), sep)
         IN  IF Head(s) = sep THEN <<"">> \o rest
             ELSE <<Head(s) \o Head(rest)>> \o Tail(rest)

RECURSIVE Concat(_)
\* The whole text of a tag
Concat(s) == IF s = <<>> THEN "" ELSE Head(s) \o Concat(Tail(s))

\* A faulty key collection that takes a field's whole tag, options included,
\* for its name
collectionKeys_WholeTag(schemaStruct) ==
    LET b == Elem(schemaStruct.type).base
    IN  { Concat(FieldTag(b, f)) : f \in Fields(b) }

\* verifyIndexKeys' collectionKeys: the name part of every field's bson tag
collectionKeys(schemaStruct) ==
    LET b == Elem(schemaStruct.type).base
    IN  { Split(FieldTag(b, f), ",")[1] : f \in Fields(b) }

\* commonutil.IsElementInSlice
IsElementInSlice(slice, element) == element \in slice

RECURSIVE ColumnNames(_)
\* The column names of the index configurations, in the order of the two
\* loops of verifyIndexKeys
ColumnNames(indexConfigs) ==
    IF indexConfigs = <<>> THEN <<>>
    ELSE LET cc == Head(indexConfigs).ColumnConfig
         IN  [i \in 1..Len(cc) |-> cc[i].Name] \o ColumnNames(Tail(indexConfigs))

\* A faulty schema verification that takes every pointer for a pointer to a
\* struct
verifySchemaStruct_AnyPointer(schemaStruct) ==
    IF IsNil(schemaStruct) THEN NewErr("SchemaStruct cannot be nil")
    ELSE IF Kind(schemaStruct.type) # "ptr"
    THEN NewErr("SchemaStruct needs to be a pointer to struct")
    ELSE NoErr

\* What verifySchemaStruct ends with when reflect panics
ZeroValuePanic == NewErr("panic: reflect: call of reflect.Value.Type on zero Value")

\* verifySchemaStruct: nil, an error, or ZeroValuePanic.
\* reflect.ValueOf(schemaStruct).Elem() is the value the pointer points to,
\* the zero Value for a nil pointer, and Type() of the zero Value panics.
verifySchemaStruct(schemaStruct) ==
    IF IsNil(schemaStruct) THEN NewErr("SchemaStruct cannot be nil")
    ELSE IF Kind(schemaStruct.type) # "ptr"
    THEN NewErr("SchemaStruct needs to be a pointer to struct")
    ELSE IF IsNilPointer(schemaStruct) THEN ZeroValuePanic
    ELSE IF Kind(Elem(schemaStruct.type)) # "struct"
    THEN NewErr("SchemaStruct needs to be a pointer to struct")
    ELSE NoErr

verifyIndexKeys(schemaStruct, indexConfigs) ==
    LET keys == collectionKeys(schemaStruct)
        names == ColumnNames(indexConfigs)
        bad == { i \in 1..Len(names) : ~IsElementInSlice(keys, names[i]) }
    IN  IF bad = {} THEN NoErr
        ELSE LET i == CHOOSE j \in bad : \A k \in bad : j <= k
             IN  NewErr("Error: IndexKey: " \o names[i]
                           \o " not found in specified collection-keys")

\* A faulty indexBson that makes every column ascending
indexBson_Ascending(indexColumns) ==
    [i \in 1..Len(indexColumns) |-> [key |-> indexColumns[i].Name, val |-> 1]]

\* createIndex's indexBson: the columns in their order, 1 or -1 each
indexBson(indexColumns) ==
    [i \in 1..Len(indexColumns) |->
        [key |-> indexColumns[i].Name,
         val |-> IF indexColumns[i].IsDescOrder THEN -1 ELSE 1]]

\* EnsureCollection's indexOptions: unique, and name when it is not empty
indexOptions(indexConfig) ==
    <<[key |-> "unique", val |-> indexConfig.IsUnique]>>
    \o (IF indexConfig.Name # "" THEN <<[key |-> "name", val |-> indexConfig.Name]>>
        ELSE <<>>)

\* mgo.IndexModel
IndexModel(indexConfig) ==
    [Keys |-> indexBson(indexConfig.ColumnConfig), Options |-> indexOptions(indexConfig)]

\* The value of an option of an index model, or the default without it
Option(options, key, default) ==
    IF \E i \in 1..Len(options) : options[i].key = key
    THEN options[CHOOSE i \in 1..Len(options) : options[i].key = key].val
    ELSE default

RECURSIVE GeneratedName(_)
\* The name the driver gives an index without one: key_direction, joined
\* with "_"
GeneratedName(keys) ==
    IF keys = <<>> THEN ""
    ELSE LET k == Head(keys)
             one == k.key \o "_" \o (IF k.val = 1 THEN "1" ELSE "-1")
         IN  IF Len(keys) = 1 THEN one ELSE one \o "_" \o GeneratedName(Tail(keys))

\* The index the server builds for an index model
ServerIndex(model) ==
    [key |-> model.Keys,
     unique |-> Option(model.Options, "unique", FALSE),
     name |-> Option(model.Options, "name", GeneratedName(model.Keys))]

\* The values of the index's keys in a document (null where it has none)
KeyTuple(doc, key) ==
    [i \in 1..Len(key) |-> IF key[i].key \in DOMAIN doc THEN doc[key[i].key]
                           ELSE [null |-> TRUE]]

\* The server's createIndexes for one index: an index that is already there
\* with the same key, name and options is left alone; the same name or the
\* same key with anything else different is a conflict; a unique index is
\* not built over documents with equal keys.
DriverCreateOne(indexes, docs, model) ==
    LET ix == ServerIndex(model)
        there == \E i \in 1..Len(indexes) : indexes[i] = ix
        conflict == \E i \in 1..Len(indexes) :
                        indexes[i] # ix /\ (indexes[i].name = ix.name \/ indexes[i].key = ix.key)
        dup == ix.unique /\ \E i, j \in 1..Len(docs) :
                                i < j /\ KeyTuple(docs[i], ix.key) = KeyTuple(docs[j], ix.key)
    IN  IF there THEN [err |-> NoErr, indexes |-> indexes]
        ELSE IF conflict THEN [err |-> NewErr("index conflict"), indexes |-> indexes]
        ELSE IF dup THEN [err |-> NewErr("duplicate key"), indexes |-> indexes]
        ELSE [err |-> NoErr, indexes |-> Append(indexes, ix)]

\* What EnsureCollection did: an outcome, with the server's indexes before
\* and after, whether c.collection was set (bound), and whether a driver call
\* ran into the timeout (waited).
EnsureRet(c, env, ok, err, sent, bound, waited, docs, idxPre, idxPost) ==
    [op |-> "EnsureCollection", arg |-> c, arg2 |-> env, st |-> "returned",
     resNil |-> ~ok, res |-> IF ok THEN c ELSE <<>>, err |-> err,
     calls |-> [i \in 1..Len(sent) |-> "CreateOne"], sent |-> sent, cur |-> NoCur,
     pre |-> docs, post |-> docs, idxPre |-> idxPre, idxPost |-> idxPost,
     bound |-> bound, waited |-> waited]

\* EnsureCollection panicked before it set the handle or called the driver
EnsurePanicked(c, env, docs, indexes) ==
    [EnsureRet(c, env, FALSE, NoErr, <<>>, FALSE, FALSE, docs, indexes, indexes)
        EXCEPT !.st = "panic"]

RECURSIVE EnsureLoop_BindsOnSuccess(_, _, _, _, _, _, _)
\* A faulty loop that leaves c.collection unset when an index creation fails
EnsureLoop_BindsOnSuccess(c, env, docs, idxPre, indexes, i, sent) ==
    IF i > Len(c.val.Indexes)
    THEN EnsureRet(c, env, TRUE, NoErr, sent, TRUE, FALSE, docs, idxPre, indexes)
    ELSE LET model == IndexModel(c.val.Indexes[i])
             now == Append(sent, model)
             r == DriverCreateOne(indexes, docs, model)
         IN  IF Len(sent) >= env.answers
             THEN EnsureRet(c, env, FALSE, NewErr("context deadline exceeded"), now,
                            FALSE, TRUE, docs, idxPre, indexes)
             ELSE IF ~r.err.nil
             THEN EnsureRet(c, env, FALSE, r.err, now, FALSE, FALSE, docs, idxPre, r.indexes)
             ELSE EnsureLoop_BindsOnSuccess(c, env, docs, idxPre, r.indexes, i + 1, now)

RECURSIVE EnsureLoop(_, _, _, _, _, _, _)
\* The loop over c.Indexes from its i-th configuration on: sent are the
\* models CreateOne was given so far, indexes the server's indexes now.  The
\* server answers env.answers driver calls; the call after them ends with
\* the timeout.
EnsureLoop(c, env, docs, idxPre, indexes, i, sent) ==
    IF i > Len(c.val.Indexes)
    THEN EnsureRet(c, env, TRUE, NoErr, sent, TRUE, FALSE, docs, idxPre, indexes)
    ELSE LET model == IndexModel(c.val.Indexes[i])
             now == Append(sent, model)
             r == DriverCreateOne(indexes, docs, model)
         IN  IF Len(sent) >= env.answers
             THEN EnsureRet(c, env, FALSE, NewErr("context deadline exceeded"), now,
                            TRUE, TRUE, docs, idxPre, indexes)
             ELSE IF ~r.err.nil
             THEN EnsureRet(c, env, FALSE, r.err, now, TRUE, FALSE, docs, idxPre, r.indexes)
             ELSE EnsureLoop(c, env, docs, idxPre, r.indexes, i + 1, now)

RECURSIVE EnsureLoop_VerifyEach(_, _, _, _, _, _, _)
\* The loop of the faulty EnsureCollection_VerifyEach below, not that of the
\* code: it verifies the keys of each index only when its turn comes, after
\* the handle is set and after the indexes before it were created
EnsureLoop_VerifyEach(c, env, docs, idxPre, indexes, i, sent) ==
    IF i > Len(c.val.Indexes)
    THEN EnsureRet(c, env, TRUE, NoErr, sent, TRUE, FALSE, docs, idxPre, indexes)
    ELSE LET e2 == verifyIndexKeys(c.val.SchemaStruct, <<c.val.Indexes[i]>>)
             model == IndexModel(c.val.Indexes[i])
             now == Append(sent, model)
             r == DriverCreateOne(indexes, docs, model)
         IN  IF ~e2.nil
             THEN EnsureRet(c, env, FALSE, WrapErr(e2, "Index-Keys Validation Error"), sent,
                            TRUE, FALSE, docs, idxPre, indexes)
             ELSE IF Len(sent) >= env.answers
             THEN EnsureRet(c, env, FALSE, NewErr("context deadline exceeded"), now,
                            TRUE, TRUE, docs, idxPre, indexes)
             ELSE IF ~r.err.nil
             THEN EnsureRet(c, env, FALSE, r.err, now, TRUE, FALSE, docs, idxPre, r.indexes)
             ELSE EnsureLoop_VerifyEach(c, env, docs, idxPre, r.indexes, i + 1, now)

\* A faulty EnsureCollection that verifies the index keys index by index,
\* between the driver calls
EnsureCollection_VerifyEach(c, docs, indexes, env) ==
    IF IsNil(c)
    THEN EnsureRet(c, env, FALSE, NewErr("Collection argument cannot be nil"), <<>>,
                   FALSE, FALSE, docs, indexes, indexes)
    ELSE LET e1 == verifySchemaStruct(c.val.SchemaStruct)
         IN  IF e1 = ZeroValuePanic THEN EnsurePanicked(c, env, docs, indexes)
             ELSE IF ~e1.nil
             THEN EnsureRet(c, env, FALSE, WrapErr(e1, "Schema Verification Error"), <<>>,
                            FALSE, FALSE, docs, indexes, indexes)
             ELSE EnsureLoop_VerifyEach(c, env, docs, indexes, indexes, 1, <<>>)

EnsureCollection(c, docs, indexes, env) ==
    IF IsNil(c)
    THEN EnsureRet(c, env, FALSE, NewErr("Collection argument cannot be nil"), <<>>,
                   FALSE, FALSE, docs, indexes, indexes)
    ELSE LET c1 == c.val
             e1 == verifySchemaStruct(c1.SchemaStruct)
             e2 == verifyIndexKeys(c1.SchemaStruct, c1.Indexes)
         IN  IF e1 = ZeroValuePanic THEN EnsurePanicked(c, env, docs, indexes)
             ELSE IF ~e1.nil
             THEN EnsureRet(c, env, FALSE, WrapErr(e1, "Schema Verification Error"), <<>>,
                            FALSE, FALSE, docs, indexes, indexes)
             ELSE IF ~e2.nil
             THEN EnsureRet(c, env, FALSE, WrapErr(e2, "Index-Keys Validation Error"), <<>>,
                            FALSE, FALSE, docs, indexes, indexes)
             ELSE EnsureLoop(c, env, docs, indexes, indexes, 1, <<>>)

(***************************************************************************)
(* The arguments the operations are called with.                           *)
(***************************************************************************)
Item(id, word, definition, hits) ==
    [ID |-> id, Word |-> word, Definition |-> definition, Hits |-> hits]

\* The item values used as data and as filters; ID 0 is the zero ObjectID.
ItemValues ==
    { Item(0, "a", "", 0), Item(0, "a", "d1", 5), Item(0, "a", "", 10),
      Item(0, "b", "", 10), Item(1, "a", "", 5) }

SampleItem == Item(0, "a", "", 0)

\* &item{...} and item{...}
SchemaArgs ==
    { V(T("item", 1), v) : v \in ItemValues }
    \cup { V(T("item", 0), v) : v \in {SampleItem, Item(0, "a", "d1", 5)} }

\* {"word": "a"}, {"hits": {"$gt": 4, "$lt": 9}}
MapDocs ==
    { [k \in {"word"} |-> VStr("a")],
      [k \in {"hits"} |-> VSub([o \in {"$gt", "$lt"} |->
                                  IF o = "$gt" THEN VInt(4) ELSE VInt(9)])] }

\* The maps themselves, and pointers to them
MapFilters == { V(T("map", 0), m) : m \in MapDocs }

MapArgs == MapFilters \cup { V(T("map", 1), m) : m \in MapDocs }

\* Arguments of other types: a pointer to a pointer to an item, an item of
\* the other package (and a pointer to it), the tests' struct { Mismatch
\* string } (and a pointer to it), a slice, a string, and nil.
OtherArgs ==
    { V(T("item", 2), SampleItem),
      V(T("item2", 0), SampleItem), V(T("item2", 1), SampleItem),
      V(T("other", 0), [Mismatch |-> "yup"]), V(T("other", 1), [Mismatch |-> "yup"]),
      V(T("slice", 0), <<>>), V(T("string", 0), "invalid-element"),
      GoNil }

Args == SchemaArgs \cup MapArgs \cup OtherArgs

\* Update arguments: {"definition": "d1"}, {"hits": "many"} (a string where
\* the schema has a number), and arguments that are no maps.
UpdateArgs ==
    { V(T("map", 0), [k \in {"definition"} |-> VStr("d1")]),
      V(T("map", 1), [k \in {"definition"} |-> VStr("d1")]),
      V(T("map", 0), [k \in {"hits"} |-> VStr("many")]),
      V(T("item", 0), SampleItem), V(T("slice", 0), <<>>), GoNil }

\* The elements of InsertMany's slices
Elements ==
    { V(T("item", 1), Item(0, "a", "d1", 5)), V(T("item", 0), Item(1, "a", "", 5)),
      V(T("string", 0), "invalid-element"), GoNil }

Batches == UNION { [1..n -> Elements] : n \in 0..MaxBatch }

\* findopt.Sort on hits (1, -1; 0: no sort option) and findopt.Limit (0: no
\* limit option)
FindOpts == [sort : {0, 1, -1}, limit : {0, 1, 2}]

\* The environments of a cursor operation: nothing goes wrong (under either
\* order of equal sort keys), or one thing does: the driver's Find fails,
\* the cursor ends early, or cur.Close fails.
CurEnvs ==
    { CurEnv(FALSE, tie, MaxDocs, FALSE) : tie \in {"stable", "reverse"} }
    \cup { CurEnv(TRUE, "stable", MaxDocs, FALSE) }
    \cup { CurEnv(FALSE, "stable", cut, FALSE) : cut \in 0..(MaxDocs - 1) }
    \cup { CurEnv(FALSE, "stable", MaxDocs, TRUE) }

CalmEnv == CurEnv(FALSE, "stable", MaxDocs, FALSE)

\* Aggregation pipelines: the empty one, the tests' [{$match: {hits: {$gt:
\* 5}}}], and one with a stage the server does not know.
Pipelines ==
    { <<>>,
      << [s \in {"$match"} |-> VSub([k \in {"hits"} |-> VSub([o \in {"$gt"} |-> VInt(5)])])] >>,
      << [s \in {"$bogus"} |-> VSub(EmptyDoc)] >> }

\* The environments of Aggregate's cursor
AggEnvs == { env \in CurEnvs : env.tie = "stable" }

\* The values Collection.SchemaStruct is assigned: &item{} and a pointer to
\* the tests' other struct
Schemas == { V(T("item", 1), ZeroStruct("item")), V(T("other", 1), ZeroStruct("other")) }

IndexColumnConfig(name, desc) == [Name |-> name, IsDescOrder |-> desc]

IndexConfig(columns, unique, name) ==
    [ColumnConfig |-> columns, IsUnique |-> unique, Name |-> name]

\* The index configurations: the tests' test_index1 and test_index2, a
\* unique index on word without a name, test_index2 declared unique, and the
\* tests' index on a column the schema does not have.
IndexConfigs ==
    { IndexConfig(<<IndexColumnConfig("word", TRUE), IndexColumnConfig("definition", FALSE)>>,
                  TRUE, "test_index1"),
      IndexConfig(<<IndexColumnConfig("definition", FALSE)>>, FALSE, "test_index2"),
      IndexConfig(<<IndexColumnConfig("word", FALSE)>>, TRUE, ""),
      IndexConfig(<<IndexColumnConfig("definition", FALSE)>>, TRUE, "test_index2"),
      IndexConfig(<<IndexColumnConfig("invalid-column", FALSE)>>, FALSE, "test_index") }

\* Collection.Indexes (a nil slice is the empty one)
IndexLists == UNION { [1..n -> IndexConfigs] : n \in 0..MaxIndexConfigs }

\* Schemas EnsureCollection accepts, and the ones of the tests it refuses:
\* none, a struct that is not behind a pointer, a pointer to a slice; and a
\* pointer to a pointer, (*[]string)(nil) and (*item)(nil)
ValidSchemas == Schemas
InvalidSchemas ==
    { GoNil, V(T("item", 0), ZeroStruct("item")), V(T("slice", 1), <<>>),
      V(T("item", 2), ZeroStruct("item")),
      NilPointer(T("slice", 1)), NilPointer(T("item", 1)) }

\* *Collection
CollectionPtr(schemaStruct, indexList) ==
    V(T("Collection", 1), [SchemaStruct |-> schemaStruct, Indexes |-> indexList])

\* EnsureCollection's arguments: nil, every index list with a valid schema,
\* and no index or test_index2 with an invalid one
Collections ==
    {GoNil}
    \cup { CollectionPtr(s, l) : s \in ValidSchemas, l \in IndexLists }
    \cup { CollectionPtr(s, l) :
             s \in InvalidSchemas,
             l \in { <<>>, <<IndexConfig(<<IndexColumnConfig("definition", FALSE)>>,
                                         FALSE, "test_index2")>> } }

\* The server answers this many driver calls before Connection.Timeout ends
\* the next one (0: the server is unreachable).
EnsureEnvs == [answers : 0..MaxIndexConfigs]

\* What the collection stores when the program starts: nothing, one
\* document, or two documents with the same word
ExistingDocs ==
    { <<>>,
      << toBSON(V(T("item", 0), Item(1, "a", "d1", 5))).doc >>,
      << toBSON(V(T("item", 0), Item(1, "a", "d1", 5))).doc,
         toBSON(V(T("item", 0), Item(2, "a", "", 10))).doc >> }

VARIABLES
    docs,          \* the documents the server stores for the collection
    SchemaStruct,  \* Collection.SchemaStruct
    last,          \* what the operation that just ended did; Idle before the next
    indexes,       \* the indexes the server keeps for the collection
    collection,    \* Collection.collection, the driver's handle, is set
    ensured,       \* EnsureCollection returned the caller's Collection without an error
    script         \* the run of the script that waits for MongoDB before the tests

vars == <<docs, SchemaStruct, last, indexes, collection, ensured, script>>

\* max_attempts of the script
max_attempts == 60

\* The script before its first statement: no variable is set (an unset
\* variable reads as 0 in an arithmetic expression), no ping was made,
\* nothing was printed and the script has not exited (status -1).
ScriptStart ==
    [pc |-> "up", res |-> 0, cur_attempts |-> 0, pings |-> <<>>, echoed |-> <<>>,
     status |-> -1]

\* A faulty Collection whose operations use the schema it was created with
Coll_AtCreation == [SchemaStruct |-> V(T("item", 1), ZeroStruct("item"))]

\* The Collection the operations are methods of
Coll == [SchemaStruct |-> SchemaStruct]

Idle == Ret("none", <<>>, <<>>, TRUE, <<>>, NoErr, <<>>, NoCur, <<>>, <<>>)

\* After EnsureCollection(&Collection{SchemaStruct: &item{}, ...}) on a new
\* database: no document is stored and no operation has run.
Init ==
    /\ docs = <<>>
    /\ SchemaStruct = V(T("item", 1), ZeroStruct("item"))
    /\ last = Idle
    /\ indexes = <<>>
    /\ collection = TRUE
    /\ ensured = TRUE
    /\ script = ScriptStart

\* The caller is between two calls.
Ready == last.op = "none"

\* The outcome of an operation on the caller's Collection, where out is its
\* outcome with the driver's handle set: without the handle, the first
\* driver call dereferences nil.
OnHandle(out) ==
    The({ IF collection \/ o.calls = <<>> THEN o
          ELSE Panicked(o.op, o.arg, o.arg2, <<>>, NoCur, o.pre, o.pre) : o \in {out} })

\* Collection.SchemaStruct after an operation with the outcome out: what it
\* points to is what the operation wrote there, if it wrote.
SchemaAfter(out) ==
    IF \E w \in out.wrote : w.addr = SchemaAddr
    THEN [SchemaStruct EXCEPT !.val = (CHOOSE w \in out.wrote : w.addr = SchemaAddr).val]
    ELSE SchemaStruct

\* The caller runs an operation, whose outcome with the handle set is out.
Done(out) ==
    \E o \in {OnHandle(out)} :
        /\ Len(o.post) <= MaxDocs
        /\ last' = o
        /\ docs' = o.post
        /\ SchemaStruct' = SchemaAfter(o)
        /\ UNCHANGED <<indexes, collection, ensured, script>>

\* The caller has looked at the outcome and goes on to its next call.
Continue ==
    /\ last.op # "none"
    /\ last' = Idle
    /\ UNCHANGED <<docs, SchemaStruct, indexes, collection, ensured, script>>

DeleteManyAct ==
    /\ Ready
    /\ \E filter \in Args, fail \in BOOLEAN :
          Done(DeleteMany(Coll, docs, filter, Env(fail)))

\* Find with a filter of the schema type under every option and environment,
\* and with each other argument under no option in the calm environment.
FindAct ==
    /\ Ready
    /\ \/ \E filter \in SchemaArgs, opts \in FindOpts, env \in CurEnvs :
             Done(Find(Coll, docs, filter, opts, env))
       \/ \E filter \in Args \ SchemaArgs :
             Done(Find(Coll, docs, filter, NoOpts, CalmEnv))

FindOneAct ==
    /\ Ready
    /\ \E filter \in Args, fail \in BOOLEAN :
          Done(FindOne(Coll, docs, filter, Env(fail)))

\* FindMap with a map under every option and environment, and with each
\* other argument under no option in the calm environment.
FindMapAct ==
    /\ Ready
    /\ \/ \E filter \in MapFilters, opts \in FindOpts, env \in CurEnvs :
             Done(FindMap(Coll, docs, filter, opts, env))
       \/ \E filter \in Args \ MapFilters :
             Done(FindMap(Coll, docs, filter, NoOpts, CalmEnv))

InsertOneAct ==
    /\ Ready
    /\ \E data \in Args, fail \in BOOLEAN :
          Done(InsertOne(Coll, docs, data, Env(fail)))

InsertManyAct ==
    /\ Ready
    /\ \E data \in Batches, failAt \in 0..MaxBatch :
          Done(InsertMany(Coll, docs, data, failAt))

\* The update of the tests' UpdateMany calls
SampleUpdate == V(T("map", 0), [k \in {"definition"} |-> VStr("d1")])

\* The filters UpdateMany is given with each of the update arguments
UpdateFilters ==
    { V(T("item", 1), SampleItem), V(T("map", 0), [k \in {"word"} |-> VStr("a")]),
      V(T("map", 0), [k \in {"_id"} |-> VStr("a")]),
      V(T("other", 0), [Mismatch |-> "yup"]), V(T("string", 0), "invalid-element") }

\* UpdateMany with every filter and the sample update, and with each update
\* argument and a few filters.
UpdateManyAct ==
    /\ Ready
    /\ \/ \E filter \in Args, fail \in BOOLEAN :
             Done(UpdateMany(Coll, docs, filter, SampleUpdate, Env(fail)))
       \/ \E filter \in UpdateFilters, update \in UpdateArgs :
             Done(UpdateMany(Coll, docs, filter, update, Env(FALSE)))

AggregateAct ==
    /\ Ready
    /\ \E pipeline \in Pipelines, env \in AggEnvs :
          Done(Aggregate(Coll, docs, pipeline, env))

\* The caller assigns another schema to Collection.SchemaStruct.
ReassignSchema ==
    /\ Ready
    /\ \E s \in Schemas \ {SchemaStruct} : SchemaStruct' = s
    /\ UNCHANGED <<docs, last, indexes, collection, ensured, script>>

Next ==
    \/ DeleteManyAct
    \/ FindAct
    \/ FindOneAct
    \/ FindMapAct
    \/ InsertOneAct
    \/ InsertManyAct
    \/ UpdateManyAct
    \/ AggregateAct
    \/ Continue

Spec == Init /\ [][Next]_vars

\* The caller also reassigns the schema between the calls of the operations
\* that read Collection.SchemaStruct (UpdateMany never reads it).
NextReassign ==
    \/ ReassignSchema
    \/ DeleteManyAct
    \/ FindAct
    \/ FindOneAct
    \/ FindMapAct
    \/ InsertOneAct
    \/ InsertManyAct
    \/ AggregateAct
    \/ Continue

SpecReassign == Init /\ [][NextReassign]_vars

\* Before the program's first EnsureCollection: the server may already store
\* documents of the collection; the caller has made a Collection value with
\* the schema &item{}, whose handle is not set.
InitEnsure ==
    /\ docs \in ExistingDocs
    /\ SchemaStruct = V(T("item", 1), ZeroStruct("item"))
    /\ last = Idle
    /\ indexes = <<>>
    /\ collection = FALSE
    /\ ensured = FALSE
    /\ script = ScriptStart

\* The caller runs EnsureCollection.  An argument with a schema that passes
\* the verification is from then on the Collection the caller's operations
\* are called on, with the handle EnsureCollection left in it.
EnsureCollectionAct ==
    /\ Ready
    /\ \E c \in Collections, env \in EnsureEnvs :
          LET out == EnsureCollection(c, docs, indexes, env)
              kept == ~IsNil(c) /\ c.val.SchemaStruct \in ValidSchemas
          IN  /\ last' = out
              /\ indexes' = out.idxPost
              /\ SchemaStruct' = IF kept THEN c.val.SchemaStruct ELSE SchemaStruct
              /\ collection' = IF kept THEN out.bound ELSE collection
              /\ ensured' = IF kept THEN out.err.nil ELSE ensured
              /\ UNCHANGED <<docs, script>>

\* EnsureCollection, and operations on the caller's Collection that store no
\* document.
NextEnsure ==
    \/ EnsureCollectionAct
    \/ FindOneAct
    \/ DeleteManyAct
    \/ Continue

SpecEnsure == InitEnsure /\ [][NextEnsure]_vars

(***************************************************************************)
(* verifyKind on its own                                                   *)
(***************************************************************************)

\* The values of reflect.Kind the function is given
Kinds == {"struct", "map", "slice", "array", "string", "ptr"}

\* The validKinds of a call, including none
KindLists == SUBSET Kinds

\* item{...}, map[string]interface{}{}, []int{1, 2, 4, 5}, [4]int{1, 2, 4, 5}
\* and "test", each as a value, behind a pointer and behind a pointer to a
\* pointer, and the nil interface
KindArgs ==
    { V(T(b, p), IF b = "item" THEN SampleItem
                 ELSE IF b = "map" THEN EmptyDoc
                 ELSE IF b = "string" THEN "test"
                 ELSE <<1, 2, 4, 5>>) :
        b \in {"item", "map", "slice", "array", "string"}, p \in 0..2 }
    \cup {GoNil}

\* A call of verifyKind that has not run yet
Called(intf, validKinds) ==
    [Idle EXCEPT !.op = "verifyKind", !.st = "called", !.arg = intf, !.arg2 = validKinds]

\* Some code of the package is about to call verifyKind.
InitVerifyKind ==
    /\ docs = <<>>
    /\ SchemaStruct = V(T("item", 1), ZeroStruct("item"))
    /\ last \in { Called(x, ks) : x \in KindArgs, ks \in KindLists }
    /\ indexes = <<>>
    /\ collection = TRUE
    /\ ensured = TRUE
    /\ script = ScriptStart

\* The call runs.
verifyKindAct ==
    /\ last.st = "called"
    /\ LET r == verifyKind(last.arg, last.arg2)
       IN  last' = IF r = "panic"
                   THEN [last EXCEPT !.st = "panic"]
                   ELSE [last EXCEPT !.st = "returned", !.resNil = FALSE,
                                     !.res = (r = "true")]
    /\ UNCHANGED <<docs, SchemaStruct, indexes, collection, ensured, script>>

NextVerifyKind == verifyKindAct

SpecVerifyKind == InitVerifyKind /\ [][NextVerifyKind]_vars

(***************************************************************************)
(* The script that starts MongoDB for the tests and waits for it           *)
(***************************************************************************)

\* The exit statuses a ping can have: 0 when the mongo shell connected,
\* 1 when it did not
PingStatuses == {0, 1}

\* The while condition (( res != 0 && ++cur_attempts != max_attempts )) for a
\* faulty script whose && does not short-circuit: the counter is incremented
\* after a successful ping too
WhileCond_AlwaysCounts(s) ==
    [enter |-> s.res # 0 /\ s.cur_attempts + 1 # max_attempts,
     cur_attempts |-> s.cur_attempts + 1]

\* The while condition (( res != 0 && ++cur_attempts != max_attempts )):
\* && short-circuits, so the counter is incremented only after a failed ping
WhileCond(s) ==
    IF s.res # 0
    THEN [enter |-> s.cur_attempts + 1 # max_attempts, cur_attempts |-> s.cur_attempts + 1]
    ELSE [enter |-> FALSE, cur_attempts |-> s.cur_attempts]

\* The statements the script shares with no other part of the model
Step(s) == /\ script' = s
           /\ UNCHANGED <<docs, SchemaStruct, last, indexes, collection, ensured>>

\* docker-compose up -d, then echo "Waiting for MongoDB to be ready.", then
\* the two assignments
Up ==
    /\ script.pc = "up"
    /\ Step([script EXCEPT !.pc = "ping", !.cur_attempts = 0,
                           !.echoed = Append(@, <<"Waiting for MongoDB to be ready.">>)])

\* ping_mongo, before the loop and in its body: res is the status of docker exec
ping_mongo ==
    /\ script.pc \in {"ping", "body"}
    /\ \E r \in PingStatuses :
          Step([script EXCEPT !.pc = IF @ = "ping" THEN "while" ELSE "echo",
                              !.res = r,
                              !.pings = Append(@, r)])

\* The test of the while loop
While ==
    /\ script.pc = "while"
    /\ Step([script EXCEPT !.pc = IF WhileCond(script).enter THEN "body" ELSE "if",
                           !.cur_attempts = WhileCond(script).cur_attempts])

\* echo Attempt: $cur_attempts of $max_attempts, then sleep 1
EchoAttempt ==
    /\ script.pc = "echo"
    /\ Step([script EXCEPT !.pc = "while",
                           !.echoed = Append(@, <<"Attempt", script.cur_attempts,
                                                  max_attempts>>)])

\* The if after the loop
IfTimedOut ==
    /\ script.pc = "if"
    /\ IF script.cur_attempts = max_attempts
       THEN Step([script EXCEPT !.pc = "exited", !.status = 1,
                                !.echoed = Append(@, <<"MongoDB Timed Out.">>)])
       ELSE Step([script EXCEPT !.pc = "exited", !.status = 0,
                                !.echoed = Append(@, <<"MongoDB Ready!">>)])

NextWait ==
    \/ Up
    \/ ping_mongo
    \/ While
    \/ EchoAttempt
    \/ IfTimedOut

\* The shell runs the statements one after the other and every statement
\* ends (docker exec and sleep return), so a step that can be taken is taken.
SpecWait == Init /\ [][NextWait]_vars /\ WF_vars(NextWait)

(***************************************************************************)
(* Properties of the operations.  Each speaks of `last`, the outcome of    *)
(* the operation that just ended, and says what that outcome must be in    *)
(* terms of the arguments and of the stored documents, not in terms of the *)
(* operation's own definition.                                             *)
(***************************************************************************)
\* The struct type Collection.SchemaStruct points to
SchemaBase == SchemaStruct.type.base

\* x is a value of the schema struct type, or a pointer to one
OfSchemaType(x) == x.type.base = SchemaBase /\ x.type.ptr <= 1

\* x has a type, and that type prints neither as the schema struct type nor
\* as a pointer to it
TypeMismatch(x) ==
    /\ ~IsNil(x)
    /\ x.type.ptr > 1 \/ BaseString(x.type.base) # BaseString(SchemaBase)

\* x, or what x points to, is of one of the kinds
KindIn(x, kinds) == ~IsNil(x) /\ x.type.ptr <= 1 /\ BaseKind(x.type.base) \in kinds

\* The outcome is the refusal of the schema check
SchemaRefused(out) ==
    /\ ~out.err.nil
    /\ out.err.msgs[Len(out.err.msgs)] =
          "Mismatch between provided data-schema and expected schema."

\* The stored document d matches the struct x used as a filter: d has each
\* field of x that the filter keeps (every field but an empty omitempty one
\* and the zero _id), with x's value.
StructFilterMatches(d, x) ==
    \A f \in Fields(x.type.base) :
        (~f.omitempty \/ x.val[f.name] # ZeroRaw(f.kind)) =>
            (f.key \in DOMAIN d /\ d[f.key] = Wrap(f.kind, x.val[f.name]))

\* The positions of the stored documents ds that match the struct filter x
MatchingAt(ds, x) == { i \in 1..Len(ds) : StructFilterMatches(ds[i], x) }

\* x is a pointer to a schema struct that holds document d's values, and the
\* zero value where d has no element
DecodedAs(x, d) ==
    /\ x.type = T(SchemaBase, 1)
    /\ \A f \in Fields(SchemaBase) :
          x.val[f.name] = IF f.key \in DOMAIN d THEN Unwrap(d[f.key]) ELSE ZeroRaw(f.kind)

\* The operations that verify their argument against the schema
SchemaCheckedOps == {"DeleteMany", "Find", "FindOne", "InsertOne"}

\* C1: when DeleteMany, Find, FindOne or InsertOne is given an argument whose
\* type does not match the schema type, the schema check refuses it before
\* anything else: the operation returns a nil result and the schema check's
\* error, calls the driver for nothing, opens no cursor, and the stored
\* documents are what they were.
C1_MismatchRefusedFirst ==
    (last.op \in SchemaCheckedOps /\ TypeMismatch(last.arg)) =>
        /\ last.st = "returned"
        /\ last.resNil
        /\ SchemaRefused(last)
        /\ last.calls = <<>>
        /\ last.sent = <<>>
        /\ ~last.cur.opened
        /\ last.post = last.pre
        /\ docs = last.pre

\* Find was refused a struct { Mismatch string } while documents are stored.
C1_Witness ==
    /\ last.op = "Find"
    /\ last.arg.type = T("other", 0)
    /\ last.resNil
    /\ ~last.err.nil
    /\ Len(docs) > 0

\* C2: the schema check accepts an argument if and only if its type is the
\* schema struct type or a pointer to it.
C2_AcceptsExactlySchemaType ==
    (last.op \in SchemaCheckedOps /\ last.st = "returned" /\ ~IsNil(last.arg)) =>
        (~SchemaRefused(last) <=> OfSchemaType(last.arg))

\* C3 (as stated): UpdateMany verifies its filter against the schema, so a
\* filter struct of another type than the schema type never reaches the
\* driver.
C3_OtherStructNeverReachesDriver ==
    (last.op = "UpdateMany" /\ KindIn(last.arg, {"struct"}) /\ TypeMismatch(last.arg)) =>
        last.calls = <<>>

\* C3 (amended): UpdateMany verifies the kinds of its arguments and nothing
\* else.  It calls the driver exactly when the filter is a map or a struct
\* (or a pointer to one) and the update is a map (or a pointer to one),
\* whatever the schema type is; otherwise it returns nil and an error and
\* the stored documents are what they were.
C3_KindsVerifiedOnly ==
    (last.op = "UpdateMany" /\ last.st = "returned") =>
        /\ last.calls # <<>> <=>
              (KindIn(last.arg, {"map", "struct"}) /\ KindIn(last.arg2, {"map"}))
        /\ last.calls = <<>> =>
              (last.resNil /\ ~last.err.nil /\ last.post = last.pre)

\* UpdateMany called the driver with a struct { Mismatch string } as filter.
C3_Witness ==
    /\ last.op = "UpdateMany"
    /\ last.arg.type = T("other", 0)
    /\ last.calls = <<"UpdateMany">>
    /\ last.err.nil

\* C4: a Find with a filter of the schema type that returns without an error
\* returns the documents its cursor yielded, one schema struct pointer per
\* document, in the cursor's order.  They are distinct stored documents that
\* match the filter; with a sort option they are in the sort's order; with a
\* limit n they are at most n; and when the cursor ran to its end they are
\* all the matching documents, or with a limit n the first n of them in the
\* sort's order.
C4_FindReturnsCursorSequence ==
    (/\ last.op = "Find"
     /\ last.st = "returned"
     /\ OfSchemaType(last.arg)
     /\ last.err.nil) =>
        LET y == last.cur.yielded
            res == last.res
            opts == last.arg2
            m == MatchingAt(last.pre, last.arg)
        IN  /\ ~last.resNil
            /\ Len(res) = Len(y)
            /\ \A i \in 1..Len(y) : DecodedAs(res[i], y[i])
            /\ \A i \in 1..Len(y) : \E j \in m : y[i] = last.pre[j]
            /\ \A i, j \in 1..Len(y) : i < j => y[i] # y[j]
            /\ opts.sort # 0 =>
                  \A i, j \in 1..Len(y) : i < j => ~Before(y[j], y[i], SortKey, opts.sort)
            /\ opts.limit # 0 => Len(y) <= opts.limit
            /\ Len(y) = Len(last.cur.all) =>
                  /\ Len(y) = IF opts.limit = 0 THEN Cardinality(m)
                              ELSE Min(opts.limit, Cardinality(m))
                  /\ opts.sort # 0 =>
                        \A j \in m :
                            (\A i \in 1..Len(y) : y[i] # last.pre[j]) =>
                               \A i \in 1..Len(y) :
                                   ~Before(last.pre[j], y[i], SortKey, opts.sort)
            /\ last.post = last.pre

\* Find sorted two matching documents with different hits in descending
\* order under a limit of 1 and returned one.
C4_Witness ==
    /\ last.op = "Find"
    /\ last.err.nil
    /\ OfSchemaType(last.arg)
    /\ last.arg2 = [sort |-> -1, limit |-> 1]
    /\ Cardinality(MatchingAt(last.pre, last.arg)) = 2
    /\ SortRank(last.pre[1], SortKey) # SortRank(last.pre[2], SortKey)
    /\ Len(last.res) = 1

\* C5: Find with a map as filter returns no error and the matching
\* documents.
C5_FindAcceptsMapFilter ==
    (last.op = "Find" /\ last.st = "returned" /\ last.arg.type = T("map", 0)) =>
        /\ last.err.nil
        /\ ~last.resNil
        /\ \A i \in 1..Len(last.res) :
              \E j \in 1..Len(last.pre) :
                 Matches(last.pre[j], last.arg.val) /\ DecodedAs(last.res[i], last.pre[j])

\* C6: FindMap accepts exactly the maps that are no pointers.  Given a
\* pointer (to a map too) or a value that is no map it returns nil and an
\* error without a driver call.  Given a map it makes no schema check and
\* hands the map to the driver as it is, and when it returns without an
\* error its results are the documents the cursor yielded, decoded as
\* pointers to the schema struct: stored documents that match the map, all
\* of them (up to the limit) when the cursor ran to its end.
C6_FindMapNonPointerMapsOnly ==
    (last.op = "FindMap" /\ ~IsNil(last.arg)) =>
        /\ last.st = "returned"
        /\ last.post = last.pre
        /\ IF last.arg.type = T("map", 0)
           THEN LET y == last.cur.yielded
                    res == last.res
                    opts == last.arg2
                    m == { j \in 1..Len(last.pre) : Matches(last.pre[j], last.arg.val) }
                IN  /\ last.calls # <<>>
                    /\ Head(last.calls) = "Find"
                    /\ last.sent = <<last.arg.val>>
                    /\ last.err.nil =>
                          /\ ~last.resNil
                          /\ Len(res) = Len(y)
                          /\ \A i \in 1..Len(y) : DecodedAs(res[i], y[i])
                          /\ \A i \in 1..Len(y) : \E j \in m : y[i] = last.pre[j]
                          /\ Len(y) = Len(last.cur.all) =>
                                Len(y) = IF opts.limit = 0 THEN Cardinality(m)
                                         ELSE Min(opts.limit, Cardinality(m))
           ELSE /\ last.resNil
                /\ ~last.err.nil
                /\ last.calls = <<>>
                /\ last.sent = <<>>

\* FindMap returned the one of two stored documents whose hits are in the
\* map's range.
C6_Witness ==
    /\ last.op = "FindMap"
    /\ last.arg.type = T("map", 0)
    /\ "hits" \in DOMAIN last.arg.val
    /\ last.err.nil
    /\ Len(last.pre) = 2
    /\ Len(last.res) = 1

\* C7: FindOne with a filter of the schema type returns, without an error, a
\* stored document that matches the filter, decoded as a pointer to the
\* schema struct, or nil with an error.  It returns a document whenever one
\* matches, unless the driver call or the decoding fails; when none matches
\* it returns nil and an error.
C7_FindOneReturnsAMatch ==
    (last.op = "FindOne" /\ OfSchemaType(last.arg)) =>
        LET m == MatchingAt(last.pre, last.arg)
        IN  /\ last.st = "returned"
            /\ last.post = last.pre
            /\ IF last.err.nil
               THEN /\ ~last.resNil
                    /\ \E j \in m : DecodedAs(last.res, last.pre[j])
               ELSE /\ last.resNil
                    /\ m # {} =>
                          last.err.msgs[Len(last.err.msgs)] \in {"driver error", "decode error"}
            /\ m = {} => ~last.err.nil

\* FindOne returned the one of two stored documents that matches.
C7_Witness ==
    /\ last.op = "FindOne"
    /\ OfSchemaType(last.arg)
    /\ last.err.nil
    /\ Len(last.pre) = 2
    /\ Cardinality(MatchingAt(last.pre, last.arg)) = 1

\* The operations whose first document for the driver is toBSON of their
\* first argument
ConvertingOps == SchemaCheckedOps \cup {"UpdateMany"}

\* C8: the document toBSON makes of an argument is the encoder's document
\* of it, without the _id element when that is the zero ObjectID and with
\* every element otherwise; so an inserted struct with a zero ID is stored
\* under a generated non-zero _id no other document has, one with a
\* non-zero ID under that _id, and with every other element it was encoded
\* to.
C8_toBSONDropsOnlyZeroID ==
    (last.op \in ConvertingOps /\ last.sent # <<>>) =>
        LET enc == EncodeDocument(last.arg).doc
            out == last.sent[1]
            zero == "_id" \in DOMAIN enc /\ enc["_id"] = VOID(0)
        IN  /\ DOMAIN out = IF zero THEN DOMAIN enc \ {"_id"} ELSE DOMAIN enc
            /\ \A k \in DOMAIN out : out[k] = enc[k]
            /\ (last.op = "InsertOne" /\ last.err.nil) =>
                  LET new == last.post[Len(last.post)]
                  IN  /\ Len(last.post) = Len(last.pre) + 1
                      /\ new["_id"] = last.res.InsertedID
                      /\ new["_id"] # VOID(0)
                      /\ new["_id"] \notin DocIDs(last.pre)
                      /\ "_id" \in DOMAIN out => new["_id"] = enc["_id"]
                      /\ \A k \in DOMAIN enc \ {"_id"} : k \in DOMAIN new /\ new[k] = enc[k]
                      /\ DOMAIN new = DOMAIN enc \cup {"_id"}

\* InsertOne stored a struct with a zero ID next to another document.
C8_Witness ==
    /\ last.op = "InsertOne"
    /\ OfSchemaType(last.arg)
    /\ last.arg.val.ID = 0
    /\ last.err.nil
    /\ Len(last.pre) = 1
    /\ Len(docs) = 2

\* The stored document d is what the struct x was inserted as
StoredFrom(d, x) ==
    LET enc == EncodeDocument(x).doc
    IN  /\ "_id" \in DOMAIN d
        /\ DocDelete(d, "_id") = DocDelete(enc, "_id")
        /\ IF enc["_id"] = VOID(0) THEN d["_id"] # VOID(0) ELSE d["_id"] = enc["_id"]

\* C9: InsertMany inserts the elements of its slice in the slice's order.
\* When all succeed it returns one result per element, in order, each with
\* the _id its element is stored under.  When the element at index i is the
\* first to fail (its type mismatches the schema, or its driver call fails)
\* it returns a nil result and an error that names i; the elements before i
\* stay inserted and those after i are never sent to the driver.
C9_InsertManyInOrder ==
    (last.op = "InsertMany" /\ last.st = "returned") =>
        LET data == last.arg
            n == Len(last.post) - Len(last.pre)
        IN  /\ n \in 0..Len(data)
            /\ SubSeq(last.post, 1, Len(last.pre)) = last.pre
            /\ \A j \in 1..n : StoredFrom(last.post[Len(last.pre) + j], data[j])
            /\ IF last.err.nil
               THEN /\ ~last.resNil
                    /\ n = Len(data)
                    /\ Len(last.res) = Len(data)
                    /\ \A j \in 1..n :
                          last.res[j].InsertedID = last.post[Len(last.pre) + j]["_id"]
                    /\ Len(last.calls) = Len(data)
               ELSE /\ last.resNil
                    /\ n < Len(data)
                    /\ last.err.index = n
                    /\ Len(last.calls) = Len(last.sent)
                    /\ IF TypeMismatch(data[n + 1])
                       THEN Len(last.calls) = n
                       ELSE Len(last.calls) = n + 1

\* InsertMany failed at index 1 of a slice of two and left the element at
\* index 0 inserted.
C9_Witness ==
    /\ last.op = "InsertMany"
    /\ Len(last.arg) = 2
    /\ ~last.err.nil
    /\ last.err.index = 1
    /\ Len(docs) = Len(last.pre) + 1

\* C10: a DeleteMany with a filter of the schema type that returns without
\* an error has removed exactly the stored documents that match the filter,
\* left the others in their order, and its DeletedCount is the number of
\* documents removed.
C10_DeleteManyRemovesMatching ==
    (/\ last.op = "DeleteMany"
     /\ last.st = "returned"
     /\ OfSchemaType(last.arg)
     /\ last.err.nil) =>
        LET m == MatchingAt(last.pre, last.arg)
        IN  /\ ~last.resNil
            /\ last.post = SelectSeq(last.pre, LAMBDA d : ~StructFilterMatches(d, last.arg))
            /\ last.res.DeletedCount = Cardinality(m)
            /\ Len(last.post) = Len(last.pre) - Cardinality(m)
            /\ docs = last.post

\* DeleteMany removed the one of two stored documents that matches.
C10_Witness ==
    /\ last.op = "DeleteMany"
    /\ OfSchemaType(last.arg)
    /\ last.err.nil
    /\ Len(last.pre) = 2
    /\ last.res.DeletedCount = 1
    /\ Len(docs) = 1

\* The stored document d matches the filter x, a map or a struct
FilterMatches(d, x) ==
    IF BaseKind(x.type.base) = "map" THEN Matches(d, x.val) ELSE StructFilterMatches(d, x)

\* C11: an UpdateMany that returns without an error has set, on every stored
\* document that matches the filter, each key of the update map to the
\* map's value and left the document's other elements as they were; the
\* documents that do not match are unchanged, and no document was added.
\* MatchedCount is the number of matching documents, ModifiedCount the
\* number of documents whose content changed, and UpsertedID is nil.
C11_UpdateManySetsFields ==
    (last.op = "UpdateMany" /\ last.st = "returned" /\ last.err.nil) =>
        LET set == last.arg2.val
            pre == last.pre
            post == last.post
            m == { i \in 1..Len(pre) : FilterMatches(pre[i], last.arg) }
        IN  /\ ~last.resNil
            /\ Len(post) = Len(pre)
            /\ \A i \in 1..Len(pre) :
                  IF i \in m
                  THEN /\ DOMAIN post[i] = DOMAIN pre[i] \cup DOMAIN set
                       /\ \A k \in DOMAIN post[i] :
                             post[i][k] = IF k \in DOMAIN set THEN set[k] ELSE pre[i][k]
                  ELSE post[i] = pre[i]
            /\ last.res.MatchedCount = Cardinality(m)
            /\ last.res.ModifiedCount = Cardinality({ i \in m : post[i] # pre[i] })
            /\ last.res.UpsertedID = "nil"
            /\ docs = post

\* UpdateMany matched two documents, changed one of them, and the other
\* already had the update's value.
C11_Witness ==
    /\ last.op = "UpdateMany"
    /\ last.st = "returned"
    /\ last.err.nil
    /\ last.res.MatchedCount = 2
    /\ last.res.ModifiedCount = 1
    /\ \E i \in 1..Len(docs) : docs[i] # last.pre[i]

\* x has a type, and neither x nor what x points to is of one of the kinds
BadKind(x, kinds) == ~IsNil(x) /\ ~KindIn(x, kinds)

\* C12: UpdateMany given a filter that is neither a map nor a struct (nor a
\* pointer to one) returns nil and the error that the filter must be a map
\* or a struct; given a valid filter and an update that is no map (nor a
\* pointer to one) it returns nil and the error that the update must be a
\* map.  In both cases it calls the driver for nothing and the stored
\* documents are what they were.
C12_UpdateManyRefusesBadKinds ==
    (last.op = "UpdateMany" /\
       (BadKind(last.arg, {"map", "struct"}) \/
        (KindIn(last.arg, {"map", "struct"}) /\ BadKind(last.arg2, {"map"})))) =>
        /\ last.st = "returned"
        /\ last.resNil
        /\ ~last.err.nil
        /\ last.err.msgs =
              IF BadKind(last.arg, {"map", "struct"})
              THEN <<"UpdateMany - Filter-argument must be a Map or Struct">>
              ELSE <<"UpdateMany - Update-argument must be a Map">>
        /\ last.calls = <<>>
        /\ last.sent = <<>>
        /\ last.post = last.pre
        /\ docs = last.pre

\* UpdateMany refused a slice as update for a valid filter while documents
\* are stored.
C12_Witness ==
    /\ last.op = "UpdateMany"
    /\ KindIn(last.arg, {"map", "struct"})
    /\ last.arg2.type = T("slice", 0)
    /\ last.resNil
    /\ ~last.err.nil
    /\ Len(docs) > 0

\* C13: UpdateMany accepts a map or a struct as filter and a map or a struct
\* as update, and hands the driver the documents made of both.
C13_UpdateManyAcceptsStructUpdate ==
    (/\ last.op = "UpdateMany"
     /\ last.st = "returned"
     /\ KindIn(last.arg, {"map", "struct"})
     /\ KindIn(last.arg2, {"map", "struct"})) =>
        /\ last.calls = <<"UpdateMany">>
        /\ Len(last.sent) = 2

\* C14: an Aggregate that returns without an error returns one result per
\* document its cursor yielded, and each result is a generic map whose _id
\* entry is the _id of that document.
C14_AggregateReturnsMaps ==
    (last.op = "Aggregate" /\ last.st = "returned" /\ last.err.nil) =>
        /\ Len(last.res) = Len(last.cur.yielded)
        /\ \A i \in 1..Len(last.res) :
              /\ last.res[i].type = T("map", 0)
              /\ last.res[i].val["_id"] = last.cur.yielded[i]["_id"]

\* The operations that decode the documents of a cursor into schema values
CursorOps == {"Find", "FindMap", "Aggregate"}

\* C20: the schema is read from Collection.SchemaStruct at every call.  Once
\* SchemaStruct has been reassigned to a pointer to another struct type, with
\* no new EnsureCollection, DeleteMany, Find, FindOne and InsertOne do not
\* refuse an argument of the new type and hand it to the driver, they refuse
\* an argument of the old type without a driver call, and every result that
\* Find, FindOne, FindMap and Aggregate return is a pointer to a struct of
\* the new type.
C20_SchemaReadAtEveryCall ==
    (SchemaBase # "item" /\ last.op # "none") =>
        /\ (last.op \in SchemaCheckedOps /\ OfSchemaType(last.arg)) =>
              /\ last.st = "returned"
              /\ ~SchemaRefused(last)
              /\ last.calls # <<>>
        /\ (last.op \in SchemaCheckedOps /\ KindIn(last.arg, {"struct"})
               /\ last.arg.type.base = "item") =>
              /\ last.st = "returned"
              /\ SchemaRefused(last)
              /\ last.resNil
              /\ last.calls = <<>>
              /\ docs = last.pre
        /\ (last.op \in CursorOps /\ last.st = "returned" /\ ~last.resNil) =>
              \A i \in 1..Len(last.res) : last.res[i].type = T(SchemaBase, 1)
        /\ (last.op = "FindOne" /\ last.st = "returned" /\ ~last.resNil) =>
              last.res.type = T(SchemaBase, 1)

\* After the reassignment, with a document of the old type still stored, Find
\* with a filter of the new type returned a document decoded into the new
\* type.
C20_Witness ==
    /\ SchemaBase = "other"
    /\ last.op = "Find"
    /\ last.st = "returned"
    /\ last.arg.type = T("other", 1)
    /\ last.err.nil
    /\ \E j \in 1..Len(last.pre) : "word" \in DOMAIN last.pre[j]
    /\ \E i \in 1..Len(last.res) :
          last.res[i].type = T("other", 1) /\ last.res[i].val.Mismatch = "yup"

\* EnsureCollection just ran
Ensured == last.op = "EnsureCollection"

\* s is no pointer to a struct: nil, not a pointer, or a pointer to something
\* that is not a struct
BadSchema(s) == IsNil(s) \/ s.type.ptr # 1 \/ BaseKind(s.type.base) # "struct"

\* s is a pointer that points to a struct
PointsToStruct(s) == ~BadSchema(s) /\ ~IsNilPointer(s)

\* C15: EnsureCollection returns a nil collection and a non-nil error, and
\* calls the driver for nothing, when its argument is nil and when the
\* argument's SchemaStruct is nil, is not a pointer, or is a pointer to
\* something that is not a struct; the server's indexes stay what they were.
C15_EnsureRefusesBadArguments ==
    (Ensured /\ (IsNil(last.arg) \/ BadSchema(last.arg.val.SchemaStruct))) =>
        /\ last.st = "returned"
        /\ last.resNil
        /\ ~last.err.nil
        /\ last.calls = <<>>
        /\ last.sent = <<>>
        /\ ~last.bound
        /\ indexes = last.idxPre

\* EnsureCollection refused a pointer to a slice as the schema of a
\* collection with an index declared, while the server answered.
C15_Witness ==
    /\ Ensured
    /\ ~IsNil(last.arg)
    /\ last.arg.val.SchemaStruct = V(T("slice", 1), <<>>)
    /\ Len(last.arg.val.Indexes) > 0
    /\ last.arg2.answers > 0
    /\ last.resNil
    /\ ~last.err.nil

\* The text of a tag before its first comma
BeforeComma(tag) ==
    LET commas == { i \in 1..Len(tag) : tag[i] = "," }
        n == IF commas = {} THEN Len(tag) + 1
             ELSE CHOOSE i \in commas : \A j \in commas : i <= j
    IN  Concat(SubSeq(tag, 1, n - 1))

\* Every column of every index configuration of c is named as the tag of
\* some field of c's schema struct is
ValidKeys(c) ==
    LET b == c.SchemaStruct.type.base
    IN  \A k \in 1..Len(c.Indexes) :
           \A j \in 1..Len(c.Indexes[k].ColumnConfig) :
              \E f \in Fields(b) :
                 c.Indexes[k].ColumnConfig[j].Name = BeforeComma(FieldTag(b, f))

\* EnsureCollection's error is the one of the index-key verification
KeysRefused(out) ==
    ~out.err.nil /\ out.err.msgs[1] = "Index-Keys Validation Error"

\* C16: with a schema that is a pointer to a struct, the index-key
\* verification accepts the declared indexes exactly when every column name
\* of every IndexConfig equals the text before the first comma of the bson
\* tag of some field of the struct; when one does not, EnsureCollection
\* returns nil and the verification's error without a driver call.
C16_IndexKeysAreTagNames ==
    (Ensured /\ ~IsNil(last.arg) /\ PointsToStruct(last.arg.val.SchemaStruct)) =>
        IF ValidKeys(last.arg.val)
        THEN ~KeysRefused(last)
        ELSE /\ KeysRefused(last)
             /\ last.resNil
             /\ last.calls = <<>>
             /\ indexes = last.idxPre

\* An index on definition, whose tag is "definition,omitempty", passed the
\* verification and was created.
C16_Witness ==
    /\ Ensured
    /\ ~IsNil(last.arg)
    /\ last.arg.val.SchemaStruct.type = T("item", 1)
    /\ \E k \in 1..Len(last.arg.val.Indexes) :
          last.arg.val.Indexes[k].ColumnConfig[1].Name = "definition"
    /\ last.err.nil
    /\ Len(indexes) > Len(last.idxPre)

\* An index on a column the schema does not have was refused.
C16_WitnessInvalid ==
    /\ Ensured
    /\ ~IsNil(last.arg)
    /\ PointsToStruct(last.arg.val.SchemaStruct)
    /\ ~ValidKeys(last.arg.val)
    /\ KeysRefused(last)

\* The server's index ix is the one the configuration ic declares
IndexFor(ix, ic) ==
    /\ Len(ix.key) = Len(ic.ColumnConfig)
    /\ \A j \in 1..Len(ix.key) :
          /\ ix.key[j].key = ic.ColumnConfig[j].Name
          /\ ix.key[j].val = IF ic.ColumnConfig[j].IsDescOrder THEN -1 ELSE 1
    /\ ix.unique = ic.IsUnique
    /\ ic.Name # "" => ix.name = ic.Name

\* C17: after a successful EnsureCollection the collection has, for every
\* declared IndexConfig, one index whose keys are the configured columns in
\* their order, -1 for a descending column and 1 otherwise, that is unique
\* exactly when IsUnique is true and carries the configured Name when that
\* is not empty.
C17_DeclaredIndexesExist ==
    (Ensured /\ last.st = "returned" /\ last.err.nil) =>
        \A k \in 1..Len(last.arg.val.Indexes) :
            Cardinality({ i \in 1..Len(indexes) :
                            IndexFor(indexes[i], last.arg.val.Indexes[k]) }) = 1

\* EnsureCollection created the tests' two indexes, the first with a
\* descending column, on a collection without indexes.
C17_Witness ==
    /\ Ensured
    /\ last.err.nil
    /\ last.idxPre = <<>>
    /\ Len(last.arg.val.Indexes) = 2
    /\ Len(indexes) = 2
    /\ indexes[1].name = "test_index1"
    /\ indexes[1].key[1].val = -1
    /\ indexes[2].name = "test_index2"
    /\ ~indexes[2].unique

\* The collection existed before EnsureCollection ran: it had documents or
\* indexes
Existed(out) == out.pre # <<>> \/ out.idxPre # <<>>

\* C18: EnsureCollection with valid arguments on a collection that already
\* exists, while the server answers every call, returns the collection and
\* no error, and leaves the documents and the indexes that were there as
\* they were.
C18_ExistingCollectionJustReturned ==
    (/\ Ensured
     /\ ~IsNil(last.arg)
     /\ PointsToStruct(last.arg.val.SchemaStruct)
     /\ ValidKeys(last.arg.val)
     /\ last.arg2.answers >= Len(last.arg.val.Indexes)
     /\ Existed(last)) =>
        /\ last.err.nil
        /\ ~last.resNil
        /\ docs = last.pre
        /\ Len(indexes) >= Len(last.idxPre)
        /\ SubSeq(indexes, 1, Len(last.idxPre)) = last.idxPre

\* C19: EnsureCollection with valid arguments and an unreachable server
\* returns nil and a non-nil error after a driver call ran into
\* Connection.Timeout.
C19_UnreachableServerIsAnError ==
    (/\ Ensured
     /\ ~IsNil(last.arg)
     /\ PointsToStruct(last.arg.val.SchemaStruct)
     /\ ValidKeys(last.arg.val)
     /\ last.arg2.answers = 0) =>
        /\ last.st = "returned"
        /\ last.resNil
        /\ ~last.err.nil
        /\ last.waited

\* C21: EnsureCollection verifies the keys of all declared indexes before
\* its first driver call: when a column of some IndexConfig is invalid, it
\* returns nil and an error, no index is sent to the driver or created, also
\* none declared before the invalid one, and the argument's handle stays
\* unset.
C21_KeysVerifiedBeforeDriver ==
    (Ensured /\ ~IsNil(last.arg) /\ PointsToStruct(last.arg.val.SchemaStruct)
        /\ ~ValidKeys(last.arg.val)) =>
        /\ last.resNil
        /\ ~last.err.nil
        /\ last.calls = <<>>
        /\ last.sent = <<>>
        /\ indexes = last.idxPre
        /\ ~last.bound
        /\ ~collection

\* A valid index was declared before an invalid one, the server answered,
\* and no index was created.
C21_Witness ==
    /\ Ensured
    /\ ~IsNil(last.arg)
    /\ last.arg.val.SchemaStruct.type = T("item", 1)
    /\ Len(last.arg.val.Indexes) = 2
    /\ last.arg.val.Indexes[1].Name = "test_index1"
    /\ last.arg.val.Indexes[2].ColumnConfig[1].Name = "invalid-column"
    /\ last.arg2.answers = 2
    /\ ~last.err.nil
    /\ indexes = <<>>

\* The operations of SpecEnsure that are called on the caller's Collection
HandleOps == {"FindOne", "DeleteMany"}

\* C22: when the creation of the k-th declared index fails, EnsureCollection
\* returns nil and the error at once: the driver was given the first k
\* declared indexes in their order and no other, the indexes that were there
\* and the ones created before the k-th are still there, and the argument
\* keeps the driver's handle; an operation called on that argument with an
\* argument of the schema type reaches the driver.
C22_IndexFailureKeepsHandle ==
    /\ (Ensured /\ last.calls # <<>> /\ ~last.err.nil) =>
          LET k == Len(last.calls)
              declared == last.arg.val.Indexes
          IN  /\ last.resNil
              /\ k <= Len(declared)
              /\ Len(last.sent) = k
              /\ \A j \in 1..k :
                    /\ Len(last.sent[j].Keys) = Len(declared[j].ColumnConfig)
                    /\ \A i \in 1..Len(last.sent[j].Keys) :
                          last.sent[j].Keys[i].key = declared[j].ColumnConfig[i].Name
              /\ \A j \in 1..(k - 1) :
                    \E i \in 1..Len(indexes) : IndexFor(indexes[i], declared[j])
              /\ Len(indexes) >= Len(last.idxPre)
              /\ SubSeq(indexes, 1, Len(last.idxPre)) = last.idxPre
              /\ last.bound
              /\ collection
              /\ ~ensured
    /\ (last.op \in HandleOps /\ collection /\ ~ensured /\ OfSchemaType(last.arg)) =>
          /\ last.st = "returned"
          /\ last.calls = <<last.op>>

\* The second declared index failed, the first one was created and stayed.
C22_WitnessSecondFails ==
    /\ Ensured
    /\ Len(last.calls) = 2
    /\ ~last.err.nil
    /\ last.idxPre = <<>>
    /\ Len(indexes) = 1
    /\ collection

\* After an EnsureCollection that failed at an index, FindOne on its argument
\* returned a stored document.
C22_Witness ==
    /\ last.op = "FindOne"
    /\ collection
    /\ ~ensured
    /\ last.calls = <<"FindOne">>
    /\ last.err.nil
    /\ ~last.resNil

\* C23: every cursor that Find, FindMap or Aggregate opened has been closed
\* when the operation has ended, whether it ended with or without an error.
C23_CursorsClosed ==
    (last.op \in CursorOps /\ last.cur.opened) => last.cur.closed

\* C24: when Find, FindMap or Aggregate returns a nil error, its list holds
\* every document of its cursor, so that an iteration that ended early is an
\* error; and when it returns an error, its list is nil.
C24_NilErrorMeansComplete ==
    (last.op \in CursorOps /\ last.st = "returned") =>
        /\ last.err.nil => (~last.resNil /\ Len(last.res) = Len(last.cur.all))
        /\ ~last.err.nil => last.resNil

\* The operations that return decoded documents
ResultOps == CursorOps \cup {"FindOne"}

\* The results an outcome returned, as a sequence
Results(out) == IF out.op = "FindOne" THEN <<out.res>> ELSE out.res

\* C25: every result that Find, FindOne, FindMap and Aggregate return is a
\* pointer to a value of the schema struct type at an address of its own: no
\* two results of an operation have the same address, none has the address
\* of the value SchemaStruct points to (so a write through a result leaves
\* that value alone), and no operation writes to memory that was there
\* before it: SchemaStruct points to the value it was created with.
C25_ResultsAreFreshCopies ==
    /\ (last.op \in ResultOps /\ last.st = "returned" /\ ~last.resNil) =>
          LET rs == Results(last)
          IN  \A i \in 1..Len(rs) :
                 /\ rs[i].type = T(SchemaBase, 1)
                 /\ rs[i].addr # SchemaAddr
                 /\ \A j \in 1..Len(rs) : i # j => rs[i].addr # rs[j].addr
    /\ last.wrote = {}
    /\ SchemaStruct.val = ZeroStruct(SchemaBase)

\* Find returned two results that hold different documents.
C25_Witness ==
    /\ last.op = "Find"
    /\ last.st = "returned"
    /\ last.err.nil
    /\ Len(last.res) = 2
    /\ last.res[1].val # last.res[2].val
    /\ last.res[1].addr # last.res[2].addr

\* The operations with one filter or data argument that C26 names, and
\* UpdateMany, which has two
NilCheckedOps == SchemaCheckedOps \cup {"FindMap", "UpdateMany"}

\* C26: DeleteMany, Find, FindOne, InsertOne, FindMap and UpdateMany given nil
\* for a filter or data argument return a non-nil error and do not panic.
C26_NilArgumentIsAnError ==
    (/\ last.op \in NilCheckedOps
     /\ IsNil(last.arg) \/ (last.op = "UpdateMany" /\ IsNil(last.arg2))) =>
        /\ last.st = "returned"
        /\ ~last.err.nil

\* C27: an UpdateMany with a map filter whose _id is not an ObjectID, and
\* with a map update, does not panic and hands the driver the filter with
\* that _id as it is.
C27_NonObjectIDFilterPassed ==
    (/\ last.op = "UpdateMany"
     /\ KindIn(last.arg, {"map"})
     /\ "_id" \in DOMAIN last.arg.val
     /\ ~IsOID(last.arg.val["_id"])
     /\ KindIn(last.arg2, {"map"})) =>
        /\ last.st = "returned"
        /\ last.calls = <<"UpdateMany">>
        /\ Len(last.sent) = 2
        /\ "_id" \in DOMAIN last.sent[1]
        /\ last.sent[1]["_id"] = last.arg.val["_id"]

\* The message each operation puts in front of the error of its own driver call
DriverCallMessage ==
    [DeleteMany |-> "Deletion Error", InsertOne |-> "InsertOne Error",
     UpdateMany |-> "UpdateMany Error", FindOne |-> "FindOne Decoding Error",
     Find |-> "Find Error", FindMap |-> "FindMap Error",
     Aggregate |-> "Aggregate Error"]

\* The operations with one driver call and no cursor
SingleCallOps == {"DeleteMany", "InsertOne", "UpdateMany"}

\* The driver calls an operation makes are pairwise different calls; InsertMany
\* makes at most one InsertOne per element
C28_CallsAtMostOnce ==
    last.st = "returned" =>
        IF last.op = "InsertMany"
        THEN /\ \A i \in 1..Len(last.calls) : last.calls[i] = "InsertOne"
             /\ Len(last.calls) <= Len(last.arg)
        ELSE \A i, j \in 1..Len(last.calls) : last.calls[i] = last.calls[j] => i = j

\* DeleteMany, InsertOne and UpdateMany return a nil error exactly when they
\* reached the driver and the driver's call did not fail, and the error of a
\* failed call carries the operation's message
C28_SingleCallErrors ==
    (last.op \in SingleCallOps /\ last.st = "returned") =>
        /\ last.err.nil <=> (last.calls = <<last.op>> /\ ~last.resNil)
        /\ (~last.err.nil /\ last.calls # <<>>) =>
               /\ Len(last.err.msgs) = 2
               /\ last.err.msgs[1] = DriverCallMessage[last.op]
               /\ last.err.msgs[2] \in {"driver error", "duplicate key"}
        /\ (~last.err.nil /\ last.calls = <<>>) => last.post = last.pre

\* C28: no operation retries or recovers from a driver failure: each driver
\* call is made at most once per operation (once per element for
\* InsertMany), a failed driver call comes back as that error under the
\* operation's own message, and DeleteMany, InsertOne and UpdateMany return a
\* nil error exactly when validation, translation and the driver call all
\* succeeded. A cursor that stops before its last document is a driver call
\* (Next) that failed.
C28_DriverFailureReturnedOnce ==
    /\ C28_CallsAtMostOnce
    /\ C28_SingleCallErrors
    /\ (/\ last.op \in CursorOps
        /\ last.st = "returned"
        /\ last.cur.opened
        /\ last.cur.closed
        /\ Len(last.cur.yielded) < Len(last.cur.all)) =>
            /\ ~last.err.nil
            /\ last.err.msgs[1] \in {DriverCallMessage[last.op],
                                     last.op \o " - Error Closing Cursor"}


\* Some ping of the script succeeded
PingSucceeded == \E i \in 1..Len(script.pings) : script.pings[i] = 0

\* The script has printed the line
Echoed(line) == \E i \in 1..Len(script.echoed) : script.echoed[i] = <<line>>

\* What holds at every point of the script's run: at most max_attempts
\* pings, no ping after a successful one, and at the exit "MongoDB Ready!"
\* exactly when a ping succeeded, otherwise "MongoDB Timed Out." and status 1
WaitSafe ==
    /\ Len(script.pings) <= max_attempts
    /\ \A i \in 1..Len(script.pings) : script.pings[i] = 0 => i = Len(script.pings)
    /\ script.pc # "exited" =>
          /\ ~Echoed("MongoDB Ready!")
          /\ ~Echoed("MongoDB Timed Out.")
          /\ script.status = -1
    /\ script.pc = "exited" =>
          /\ Echoed("MongoDB Ready!") <=> PingSucceeded
          /\ Echoed("MongoDB Timed Out.") <=> ~PingSucceeded
          /\ ~PingSucceeded => script.status = 1
          /\ PingSucceeded => script.status = 0

\* C29: the script that waits for MongoDB always terminates, after at most
\* max_attempts (60) pings; it stops pinging at the first successful ping,
\* prints "MongoDB Ready!" if and only if some ping succeeded, and otherwise
\* prints "MongoDB Timed Out." and exits with status 1.
C29_WaitTerminates == []WaitSafe /\ <>(script.pc = "exited")

\* The last ping the script allows, the 60th, succeeded after 59 failed ones
\* and the script printed "MongoDB Ready!".
C29_Witness ==
    /\ script.pc = "exited"
    /\ Len(script.pings) = max_attempts
    /\ script.pings[max_attempts] = 0
    /\ Echoed("MongoDB Ready!")
    /\ script.status = 0

\* Every ping failed and the script gave up after the 60th.
C29_WitnessTimedOut ==
    /\ script.pc = "exited"
    /\ Len(script.pings) = max_attempts
    /\ ~PingSucceeded
    /\ Echoed("MongoDB Timed Out.")
    /\ script.status = 1


\* The kind verifyKind compares: that of the pointed-to type for a pointer,
\* that of the type itself otherwise
OneLevelKind(t) == IF t.ptr > 0 THEN Kind(T(t.base, t.ptr - 1)) ELSE BaseKind(t.base)

\* C30 as stated: verifyKind(x, kinds...) returns true if and only if the
\* kind of x, after dereferencing exactly one pointer level when x is a
\* pointer, is one of the given kinds; it returns false when no kind is
\* given and when x is a pointer to a pointer of a listed kind.
C30_PointerToPointerIsFalse ==
    (last.op = "verifyKind" /\ last.st # "called" /\ ~IsNil(last.arg)) =>
        /\ last.st = "returned"
        /\ last.res <=> OneLevelKind(last.arg.type) \in last.arg2
        /\ last.arg2 = {} => ~last.res
        /\ (last.arg.type.ptr = 2 /\ BaseKind(last.arg.type.base) \in last.arg2) =>
               ~last.res

\* C30, amended: verifyKind(x, kinds...) returns true if and only if the kind
\* of x, after dereferencing exactly one pointer level when x is a pointer,
\* is one of the given kinds; it returns false when no kind is given, and
\* when x is a pointer to a pointer of a listed kind unless Ptr is listed as
\* well; for the nil interface it panics.
C30_VerifyKindOneLevel ==
    (last.op = "verifyKind" /\ last.st # "called") =>
        IF IsNil(last.arg)
        THEN last.st = "panic"
        ELSE /\ last.st = "returned"
             /\ last.res <=> OneLevelKind(last.arg.type) \in last.arg2
             /\ last.arg2 = {} => ~last.res
             /\ (/\ last.arg.type.ptr = 2
                 /\ BaseKind(last.arg.type.base) \in last.arg2
                 /\ "ptr" \notin last.arg2) => ~last.res
             /\ (last.arg.type.ptr = 2 /\ "ptr" \in last.arg2) => last.res

\* verifyKind(&&[]int{...}, Array, Slice) returned false.
C30_Witness ==
    /\ last.op = "verifyKind"
    /\ last.st = "returned"
    /\ last.arg.type = T("slice", 2)
    /\ last.arg2 = {"array", "slice"}
    /\ last.res = FALSE

====
